---- MODULE Spec2Model ----
(***************************************************************************)
(* State-machine model of the TelegramBotBroadcaster component             *)
(* (src/src/app/page.tsx): list management and list-based selection, the   *)
(* batched broadcast, and the chat discovery scan.                         *)
(*                                                                         *)
(* JavaScript Sets are modelled as TLA+ sets (their iteration order is     *)
(* abstracted), arrays as sequences.  Every await of an async handler is   *)
(* a step boundary; the code between two awaits is one atomic action.  The *)
(* save effects (useEffect on chats / lists / templates / rememberToken)   *)
(* run after the render that follows a handler and are part of the action  *)
(* that changed their dependencies.                                        *)
(***************************************************************************)
EXTENDS Integers, Sequences, FiniteSets, TLC

VARIABLES
    step,             \* 'setup' | 'connected'        (page.tsx:83)
    botToken,         \* page.tsx:85
    botInfo,          \* page.tsx:86
    rememberToken,    \* page.tsx:107
    chats,            \* Chat[]                       (page.tsx:87)
    selectedChats,    \* Set<number>                  (page.tsx:88)
    message,          \* compose field                (page.tsx:89)
    error,            \* inline error text            (page.tsx:91)
    activeTab,        \* page.tsx:84
    logs,             \* LogEntry[]                   (page.tsx:92)
    sendingProgress,  \* {sent,total,failed} | null   (page.tsx:93)
    lists,            \* ChatList[]                   (page.tsx:110)
    selectedLists,    \* Set<string>                  (page.tsx:111)
    excludedLists,    \* Set<string>                  (page.tsx:112)
    templates,        \* MessageTemplate[]            (page.tsx:119)
    nextListId,       \* the clock value the next `list_${Date.now()}` takes
    localStorage,     \* durable tier, key -> value
    sessionStorage,   \* session tier, key -> value
    bc,               \* the running broadcastMessage call: its position,
                      \* captured state and locals (page.tsx:652-738)
    sendCalls,        \* history: sendMessage requests issued, per chat id
    noAccess,         \* remote service: chats that reject the bot's calls
    discoveredChats,  \* DiscoveredChat[]            (page.tsx:104)
    isDiscovering,    \* page.tsx:105
    lastUpdateId,     \* number | null               (page.tsx:106)
    scan,             \* the running discoverChats call: its position and
                      \* locals (page.tsx:767-875)
    mounted,          \* the load effect has run     (page.tsx:175-227)
    isLoading,        \* page.tsx:90
    isRefreshing,     \* page.tsx:914
    newChatId,        \* add-chat input field        (page.tsx:96)
    hasAutoRefreshed, \* useRef                      (page.tsx:124)
    addCalls,         \* the running addChat / addDiscoveredChat calls
                      \* (page.tsx:342-380, 877-906)
    rf,               \* the running refreshChats call: its position,
                      \* captured chats and locals (page.tsx:916-959)
    connectCalls,     \* the running connectBot calls, each with the
                      \* botToken and rememberToken of its render
                      \* (page.tsx:301-340)
    apiCalls          \* history: requests sent to the remote service

connVars  == <<step, botToken, botInfo, rememberToken>>
storeVars == <<localStorage, sessionStorage>>
listVars  == <<lists, selectedLists, excludedLists, nextListId>>
uiVars    == <<error, activeTab>>
bcastVars == <<bc, sendCalls>>
discVars  == <<discoveredChats, isDiscovering, lastUpdateId, scan>>
bgVars    == <<bcastVars, discVars, noAccess>>
regVars   == <<mounted, isLoading, isRefreshing, newChatId, hasAutoRefreshed,
               addCalls, rf, connectCalls, apiCalls>>
vars == <<step, botToken, botInfo, rememberToken, chats, selectedChats,
          message, error, activeTab, logs, sendingProgress, lists,
          selectedLists, excludedLists, templates, nextListId, localStorage,
          sessionStorage, bc, sendCalls, noAccess, discoveredChats,
          isDiscovering, lastUpdateId, scan, mounted, isLoading,
          isRefreshing, newChatId, hasAutoRefreshed, addCalls, rf,
          connectCalls, apiCalls>>

----------------------------------------------------------------------------
(* Bounds *)

\* largest list id the clock hands out (bounds the number of createList calls)
MaxListId == 5
\* longest activity log a run of the list specification builds up
MaxLog == 2
\* entries appended to the activity log between two clears
MaxAppends == 202

\* a broadcast targets up to MaxBatches full batches plus one chat
MaxBatches == 1
\* broadcasts started in one run
MaxBroadcasts == 1
\* target sets up to this size fail in every combination of their chats
SmallTargets == 3

\* refreshChats calls started in one run
MaxRefreshes == 1
\* getMe requests sent in one run
MaxConnects == 1
\* addChat / addDiscoveredChat / addAllDiscoveredChats calls started in one run
MaxAdds == 2

\* updates the remote service delivers in one run (the largest update_id)
MaxUpdates == 2
\* discovery scans started in one run
MaxScans == 2

(* Program constants *)
LOG_KEEP == 200
BATCH_SIZE == 30

Null == "null"

\* a bot token of the expected format, as a sequence of characters
ValidToken == <<"1", ":", "a">>

\* an absent optional value, and a present one
None == <<>>
Some(x) == <<x>>

----------------------------------------------------------------------------
(* Generic helpers *)

Range(s) == {s[i] : i \in 1..Len(s)}

Max(a, b) == IF a >= b THEN a ELSE b

\* Array.prototype.filter
RECURSIVE FilterSeq(_, _)
FilterSeq(s, keep) ==
    IF s = <<>> THEN <<>>
    ELSE IF Head(s) \in keep
         THEN <<Head(s)>> \o FilterSeq(Tail(s), keep)
         ELSE FilterSeq(Tail(s), keep)

\* prev.slice(-n): the last n elements of s
SliceLast(s, n) == SubSeq(s, Max(1, Len(s) - n + 1), Len(s))

\* addLog: setLogs(prev => [...prev.slice(-200), {message, type, timestamp}])
addLog(prev, msg, type) ==
    Append(SliceLast(prev, LOG_KEEP), [message |-> msg, type |-> type])

----------------------------------------------------------------------------
(* Remote service and persistence *)

\* chat ids the remote service knows; lists may still hold the id of a chat
\* that has left the registry
ChatIds == {1, 2, 3, 4}

ChatType(id) ==
    CASE id % 4 = 1 -> "group"
      [] id % 4 = 2 -> "private"
      [] id % 4 = 3 -> "channel"
      [] OTHER      -> "supergroup"

\* the chat object the remote service returns for an id: groups and channels
\* carry a title, private chats a first_name
RemoteChat(id) ==
    [id |-> id, type |-> ChatType(id),
     title |-> IF ChatType(id) = "private" THEN Null
               ELSE "title_" \o ToString(id),
     first_name |-> IF ChatType(id) = "private"
                    THEN "first_" \o ToString(id) ELSE Null,
     username |-> Null]

\* chat.title || chat.first_name || chat.username || `Chat ${chat.id}`
TitleOf(c) ==
    IF c.title # Null THEN c.title
    ELSE IF c.first_name # Null THEN c.first_name
    ELSE IF c.username # Null THEN c.username
    ELSE "Chat " \o ToString(c.id)

\* the Chat built by addChat / addDiscoveredChat from a getChat result
NewChat(c) ==
    [id |-> c.id, title |-> TitleOf(c), type |-> c.type, botKicked |-> FALSE,
     memberCount |-> None]

IdsOf(cs) == {cs[i].id : i \in 1..Len(cs)}

StorageKeys == {"tg_bot_token", "tg_remember_token", "tg_bot_chats",
                "tg_bot_lists", "tg_bot_templates"}

EmptyStorage == [k \in StorageKeys |-> None]

\* JSON values: a scalar carries its type tag; an array entry is an object
\* (its defined properties) or a scalar; a stored text either parses to a
\* value or makes JSON.parse throw
JNum(n) == [t |-> "number", n |-> n, s |-> "", b |-> FALSE]
JStr(x) == [t |-> "string", n |-> 0, s |-> x, b |-> FALSE]
JBool(x) == [t |-> "boolean", n |-> 0, s |-> "", b |-> x]
JObject(fields) == [kind |-> "object", fields |-> fields]
JScalar == [kind |-> "null", fields |-> <<>>]
JArray(items) == [syntax |-> TRUE, kind |-> "array", items |-> items]
JOther == [syntax |-> TRUE, kind |-> "object", items |-> <<>>]
JBroken == [syntax |-> FALSE, kind |-> "array", items |-> <<>>]

\* JSON.stringify of one Chat: a property whose value is undefined
\* (memberCount of a chat that never got one) is left out
StringifyChat(c) ==
    LET keys == {"id", "title", "type", "botKicked"} \cup
                (IF c.memberCount = None THEN {} ELSE {"memberCount"})
    IN JObject([k \in keys |->
                  CASE k = "id" -> JNum(c.id)
                    [] k = "title" -> JStr(c.title)
                    [] k = "type" -> JStr(c.type)
                    [] k = "botKicked" -> JBool(c.botKicked)
                    [] OTHER -> JNum(c.memberCount[1])])

\* JSON.stringify(chats)
StringifyChats(cs) == JArray([i \in 1..Len(cs) |-> StringifyChat(cs[i])])

\* isValidChat
isValidChat(c) ==
    /\ c.kind = "object"
    /\ "id" \in DOMAIN c.fields /\ c.fields["id"].t = "number"
    /\ "title" \in DOMAIN c.fields /\ c.fields["title"].t = "string"
    /\ "type" \in DOMAIN c.fields /\ c.fields["type"].t = "string"
    /\ c.fields["type"].s \in {"group", "supergroup", "channel", "private"}

\* the Chat a parsed object is used as
ChatOfJson(c) ==
    [id |-> c.fields["id"].n, title |-> c.fields["title"].s,
     type |-> c.fields["type"].s,
     botKicked |-> /\ "botKicked" \in DOMAIN c.fields
                   /\ c.fields["botKicked"].b,
     memberCount |-> IF "memberCount" \in DOMAIN c.fields
                     THEN Some(c.fields["memberCount"].n) ELSE None]

\* a load that keeps the entries that pass isValidChat
LoadChats_partial(stored) ==
    IF stored = None THEN <<>>
    ELSE LET text == stored[1]
         IN IF text.syntax /\ text.kind = "array"
            THEN LET RECURSIVE Keep(_)
                     Keep(items) ==
                        IF items = <<>> THEN <<>>
                        ELSE IF isValidChat(Head(items))
                             THEN <<ChatOfJson(Head(items))>> \o
                                  Keep(Tail(items))
                             ELSE Keep(Tail(items))
                 IN Keep(text.items)
            ELSE <<>>

\* the chats the load effect takes from a stored value (lines 202-210):
\* all of them, or none when JSON.parse throws, the value is no array, or
\* one entry fails isValidChat
LoadChats(stored) ==
    IF stored = None THEN <<>>
    ELSE LET text == stored[1]
         IN IF /\ text.syntax
               /\ text.kind = "array"
               /\ \A i \in 1..Len(text.items) : isValidChat(text.items[i])
            THEN [i \in 1..Len(text.items) |-> ChatOfJson(text.items[i])]
            ELSE <<>>

\* JSON.stringify of a collection; lists and templates are kept as the
\* collection itself
Json(key, coll) ==
    IF key = "tg_bot_chats" THEN Some(StringifyChats(coll)) ELSE Some(coll)

\* save effects that write one tier and leave the other alone
SaveCollection_keepsOther(st, key, coll, remember) ==
    IF Len(coll) > 0
    THEN IF remember
         THEN <<[st[1] EXCEPT ![key] = Json(key, coll)], st[2]>>
         ELSE <<st[1], [st[2] EXCEPT ![key] = Json(key, coll)]>>
    ELSE <<[st[1] EXCEPT ![key] = None], [st[2] EXCEPT ![key] = None]>>

\* body of the three save effects: a non-empty collection is written to the
\* tier chosen by rememberToken and removed from the other tier, an empty
\* one is removed from both.  st = <<localStorage, sessionStorage>>
SaveCollection(st, key, coll, remember) ==
    IF Len(coll) > 0
    THEN IF remember
         THEN <<[st[1] EXCEPT ![key] = Json(key, coll)], [st[2] EXCEPT ![key] = None]>>
         ELSE <<[st[1] EXCEPT ![key] = None], [st[2] EXCEPT ![key] = Json(key, coll)]>>
    ELSE <<[st[1] EXCEPT ![key] = None], [st[2] EXCEPT ![key] = None]>>

\* The save effects that follow a handler: each runs when one of its
\* dependencies ([chats, rememberToken], [lists, rememberToken],
\* [templates, rememberToken]) changed.  st is the storage as the handler
\* itself left it.
SaveEffects(st) ==
    LET r  == rememberToken'
        rc == rememberToken' # rememberToken
        s1 == IF rc \/ chats' # chats
              THEN SaveCollection(st, "tg_bot_chats", chats', r) ELSE st
        s2 == IF rc \/ lists' # lists
              THEN SaveCollection(s1, "tg_bot_lists", lists', r) ELSE s1
        s3 == IF rc \/ templates' # templates
              THEN SaveCollection(s2, "tg_bot_templates", templates', r) ELSE s2
    IN /\ localStorage' = s3[1]
       /\ sessionStorage' = s3[2]

\* storage of a connected session whose collections have been saved
SavedStorage(token, remember, cs, ls, ts) ==
    LET s0 == IF remember
              THEN <<[EmptyStorage EXCEPT !["tg_bot_token"] = Some(token),
                                          !["tg_remember_token"] = Some("true")],
                     EmptyStorage>>
              ELSE <<EmptyStorage,
                     [EmptyStorage EXCEPT !["tg_bot_token"] = Some(token)]>>
        s1 == SaveCollection(s0, "tg_bot_chats", cs, remember)
        s2 == SaveCollection(s1, "tg_bot_lists", ls, remember)
    IN SaveCollection(s2, "tg_bot_templates", ts, remember)

\* the broadcastMessage call when none is running
IdleBroadcast ==
    [pc |-> "idle", chatIds |-> <<>>, total |-> 0, chats |-> <<>>, i |-> 0,
     inflight |-> {}, sent |-> 0, failed |-> 0, batches |-> 0, delays |-> 0,
     runs |-> 0]

\* the refreshChats call when none is running
IdleRefresh ==
    [pc |-> "idle", chats |-> <<>>, stage |-> <<>>, results |-> <<>>,
     outcome |-> <<>>, updated |-> 0, kicked |-> 0, runs |-> 0]

\* the registry calls of a connected session in which none is running
RegistryIdle ==
    /\ mounted = TRUE
    /\ isLoading = FALSE
    /\ isRefreshing = FALSE
    /\ newChatId = <<>>
    /\ hasAutoRefreshed = (Len(chats) > 0)
    /\ addCalls = <<>>
    /\ rf = IdleRefresh
    /\ connectCalls = <<>>
    /\ apiCalls = <<>>

\* the discoverChats call when none is running
IdleScan ==
    [pc |-> "idle", offset |-> 0, existing |-> {}, updates |-> <<>>,
     potential |-> <<>>, verified |-> <<>>, probes |-> <<>>, runs |-> 0]

----------------------------------------------------------------------------
(* Lists *)

\* `list_${Date.now()}` for clock value n
ListId(n) == "list_" \o ToString(n)

MkList(id, chatIds, parentId) ==
    [id |-> id, chatIds |-> chatIds, parentId |-> parentId,
     stats |-> [sent |-> 0, failed |-> 0, lastBroadcast |-> Null]]

\* List collections the load effect may restore from storage.  isValidList
\* does not constrain parentId, so chains deeper than one level are loaded.
SavedLists ==
    { <<>>,
      \* a root with two children and one grandchild
      << MkList(ListId(1), <<1>>, Null), MkList(ListId(2), <<2>>, ListId(1)),
         MkList(ListId(3), <<3>>, ListId(1)),
         MkList(ListId(4), <<4, 3>>, ListId(2)) >>,
      \* two roots sharing a chat, one child
      << MkList(ListId(1), <<1, 2>>, Null), MkList(ListId(2), <<2, 3>>, Null),
         MkList(ListId(3), <<3>>, ListId(2)) >> }

ListIdsOf(ls) == {ls[i].id : i \in 1..Len(ls)}

\* lists.filter(pred), as the subsequence of the lists whose id is in keep
RECURSIVE FilterLists(_, _)
FilterLists(ls, keep) ==
    IF ls = <<>> THEN <<>>
    ELSE IF Head(ls).id \in keep
         THEN <<Head(ls)>> \o FilterLists(Tail(ls), keep)
         ELSE FilterLists(Tail(ls), keep)

\* lists.filter(l => l.parentId === listId).map(l => l.id)
ChildIds(ls, listId) ==
    {ls[i].id : i \in {j \in 1..Len(ls) : ls[j].parentId = listId}}

\* getRootLists / getChildLists: the lists the chat tab renders, i.e. the
\* ones whose buttons the user can press
RootIds(ls) == ChildIds(ls, Null)
RenderedIds(ls) == RootIds(ls) \cup UNION {ChildIds(ls, r) : r \in RootIds(ls)}

\* getAllChatIds that stops at the direct children
getAllChatIds_oneLevel(ls, listId) ==
    UNION {Range(ls[i].chatIds) :
           i \in {j \in 1..Len(ls) :
                     ls[j].id = listId \/ ls[j].parentId = listId}}

\* getAllChatIds (inner function of getChatsFromLists), as the set of the
\* returned array's elements
RECURSIVE getAllChatIds(_, _)
getAllChatIds(ls, listId) ==
    IF listId \notin ListIdsOf(ls) THEN {}
    ELSE LET list == ls[CHOOSE i \in 1..Len(ls) :
                          /\ ls[i].id = listId
                          /\ \A j \in 1..(i - 1) : ls[j].id # listId]
         IN Range(list.chatIds) \cup
            UNION {getAllChatIds(ls, c) : c \in ChildIds(ls, listId)}

\* getChatsFromLists: add the ids of every selected list, then delete the
\* ids of every excluded list
getChatsFromLists(ls, sel, exc) ==
    UNION {getAllChatIds(ls, l) : l \in sel} \
    UNION {getAllChatIds(ls, l) : l \in exc}

createList(parentId) ==
    /\ nextListId <= MaxListId
    /\ Len(logs) < MaxLog
    /\ lists' = Append(lists, MkList(ListId(nextListId), <<>>, parentId))
    /\ nextListId' = nextListId + 1
    /\ logs' = addLog(logs, <<"Created list">>, "success")
    /\ UNCHANGED <<connVars, regVars, uiVars, bgVars, chats, selectedChats, message,
                   sendingProgress,
                   selectedLists, excludedLists, templates>>
    /\ SaveEffects(<<localStorage, sessionStorage>>)

deleteList(listId) ==
    LET childIds == ChildIds(lists, listId)
        gone == {listId} \cup childIds
    IN /\ Len(logs) < MaxLog
       /\ lists' = FilterLists(lists, ListIdsOf(lists) \ gone)
       /\ selectedLists' = selectedLists \ gone
       /\ excludedLists' = excludedLists \ gone
       /\ logs' = addLog(logs, <<"Deleted list">>, "info")
       /\ UNCHANGED <<connVars, regVars, uiVars, bgVars, chats, selectedChats, message,
                      sendingProgress, templates, nextListId>>
       /\ SaveEffects(<<localStorage, sessionStorage>>)

\* toggleListSelection that leaves the exclusion flag alone
toggleListSelection_keepsExclusion(listId) ==
    /\ selectedLists' = IF listId \in selectedLists
                        THEN selectedLists \ {listId}
                        ELSE selectedLists \cup {listId}
    /\ UNCHANGED <<connVars, regVars, storeVars, uiVars, bgVars, chats, selectedChats,
                   message, logs,
                   sendingProgress, lists, excludedLists, templates,
                   nextListId>>

toggleListSelection(listId) ==
    /\ IF listId \in selectedLists
       THEN /\ selectedLists' = selectedLists \ {listId}
            /\ UNCHANGED excludedLists
       ELSE /\ selectedLists' = selectedLists \cup {listId}
            /\ excludedLists' = excludedLists \ {listId}
    /\ UNCHANGED <<connVars, regVars, storeVars, uiVars, bgVars, chats, selectedChats,
                   message, logs,
                   sendingProgress, lists, templates, nextListId>>

toggleListExclusion(listId) ==
    /\ IF listId \in excludedLists
       THEN /\ excludedLists' = excludedLists \ {listId}
            /\ UNCHANGED selectedLists
       ELSE /\ excludedLists' = excludedLists \cup {listId}
            /\ selectedLists' = selectedLists \ {listId}
    /\ UNCHANGED <<connVars, regVars, storeVars, uiVars, bgVars, chats, selectedChats,
                   message, logs,
                   sendingProgress, lists, templates, nextListId>>

\* selectChatsFromLists that adds to the current selection
selectChatsFromLists_merging ==
    LET chatIds == getChatsFromLists(lists, selectedLists, excludedLists)
    IN /\ Len(logs) < MaxLog
       /\ selectedChats' = selectedChats \cup chatIds
       /\ logs' = addLog(logs, <<"Selected chats from lists",
                                 Cardinality(chatIds)>>, "info")
       /\ UNCHANGED <<connVars, regVars, storeVars, uiVars, bgVars, chats, message,
                      sendingProgress,
                      listVars, templates>>

selectChatsFromLists ==
    LET chatIds == getChatsFromLists(lists, selectedLists, excludedLists)
    IN /\ Len(logs) < MaxLog
       /\ selectedChats' = chatIds
       /\ logs' = addLog(logs, <<"Selected chats from lists",
                                 Cardinality(chatIds)>>, "info")
       /\ UNCHANGED <<connVars, regVars, storeVars, uiVars, bgVars, chats, message,
                      sendingProgress,
                      listVars, templates>>

toggleChat(chatId) ==
    /\ selectedChats' = IF chatId \in selectedChats
                        THEN selectedChats \ {chatId}
                        ELSE selectedChats \cup {chatId}
    /\ UNCHANGED <<connVars, regVars, storeVars, uiVars, bgVars, chats, message, logs,
                   sendingProgress, listVars, templates>>

\* an effect that starts the refresh without marking it as done
AutoRefreshEffect_neverMarks(step1, chats1, botInfo1, flag) ==
    [start |-> step1 = "connected" /\ Len(chats1) > 0 /\ botInfo1 # Null
                  /\ ~flag,
     flag |-> IF step1 = "setup" THEN FALSE ELSE flag]

\* the auto-refresh effect, run after a render in which step or botInfo
\* changed: whether it starts refreshChats, and hasAutoRefreshed.current
\* afterwards
AutoRefreshEffect(step1, chats1, botInfo1, flag) ==
    LET start == step1 = "connected" /\ Len(chats1) > 0 /\ botInfo1 # Null
                    /\ ~flag
    IN [start |-> start,
        flag |-> IF step1 = "setup" THEN FALSE
                 ELSE IF start THEN TRUE ELSE flag]

disconnect ==
    /\ botToken' = <<>>
    /\ botInfo' = Null
    /\ chats' = <<>>
    /\ selectedChats' = {}
    /\ lists' = <<>>
    /\ selectedLists' = {}
    /\ excludedLists' = {}
    /\ templates' = <<>>
    /\ step' = "setup"
    /\ rememberToken' = FALSE
    /\ logs' = addLog(logs, <<"Disconnected - all data cleared">>, "info")
    /\ hasAutoRefreshed' =
          AutoRefreshEffect("setup", <<>>, Null, hasAutoRefreshed).flag
    /\ UNCHANGED <<uiVars, bgVars, message, sendingProgress, nextListId,
                   mounted, isLoading, isRefreshing, newChatId, addCalls, rf,
                   connectCalls, apiCalls>>
    /\ SaveEffects(<<EmptyStorage, EmptyStorage>>)

----------------------------------------------------------------------------
(* Specification of list management and list-based selection: a connected  *)
(* session whose registry and lists were restored from storage.            *)

SavedChats == <<NewChat(RemoteChat(1))>>

InitLists ==
    /\ step = "connected"
    /\ botToken = ValidToken
    /\ botInfo = "me"
    /\ rememberToken = FALSE
    /\ chats = SavedChats
    /\ selectedChats = {}
    /\ message = <<>>
    /\ error = ""
    /\ activeTab = "chats"
    /\ logs = <<>>
    /\ sendingProgress = None
    /\ bc = IdleBroadcast
    /\ sendCalls = <<>>
    /\ noAccess = {}
    /\ discoveredChats = <<>>
    /\ isDiscovering = FALSE
    /\ lastUpdateId = 0
    /\ scan = IdleScan
    /\ lists \in SavedLists
    /\ selectedLists = {}
    /\ excludedLists = {}
    /\ templates = <<>>
    /\ nextListId = 5
    /\ localStorage = SavedStorage(botToken, rememberToken, chats, lists,
                                   templates)[1]
    /\ sessionStorage = SavedStorage(botToken, rememberToken, chats, lists,
                                     templates)[2]
    /\ RegistryIdle

NextLists ==
    \/ step = "connected" /\ \E p \in {Null} \cup RootIds(lists) : createList(p)
    \/ step = "connected" /\ \E l \in RootIds(lists) : deleteList(l)
    \/ step = "connected" /\ \E l \in RenderedIds(lists) : toggleListSelection(l)
    \/ step = "connected" /\ \E l \in RenderedIds(lists) : toggleListExclusion(l)
    \/ step = "connected" /\ selectedLists \cup excludedLists # {}
                          /\ selectChatsFromLists
    \/ step = "connected" /\ \E c \in IdsOf(chats) : toggleChat(c)
    \/ step = "connected" /\ Len(logs) < MaxLog /\ disconnect

SpecLists == InitLists /\ [][NextLists]_vars

----------------------------------------------------------------------------
(* Properties of list management (SpecLists) *)

\* the parentId of the list with the given id (Null when there is none)
ParentOf(ls, id) ==
    IF id \in ListIdsOf(ls)
    THEN ls[CHOOSE i \in 1..Len(ls) : ls[i].id = id].parentId
    ELSE Null

\* the ids met when following the parentId references upwards from id
RECURSIVE AncestorsOf(_, _, _)
AncestorsOf(ls, id, fuel) ==
    LET p == ParentOf(ls, id)
    IN IF fuel = 0 \/ p = Null THEN {}
       ELSE {p} \cup AncestorsOf(ls, p, fuel - 1)

\* every list whose parentId chain leads to l
Descendants(ls, l) ==
    {d \in ListIdsOf(ls) \ {l} : l \in AncestorsOf(ls, d, Len(ls))}

\* the chat ids of l and of all its transitive child lists
Resolved(ls, l) ==
    UNION {Range(ls[i].chatIds) :
           i \in {j \in 1..Len(ls) : ls[j].id \in {l} \cup Descendants(ls, l)}}

ResolvedAll(ls, ids) == UNION {Resolved(ls, l) : l \in ids}

\* C3: deleteList(L) removes L and every list whose parentId chain leads to
\* L from the list collection and from selectedLists and excludedLists.
C3_DeleteListCascades ==
    [][\A l \in RootIds(lists) :
         deleteList(l) =>
            LET gone == {l} \cup Descendants(lists, l)
            IN /\ ListIdsOf(lists') \cap gone = {}
               /\ selectedLists' \cap gone = {}
               /\ excludedLists' \cap gone = {}]_vars

\* C4: getChatsFromLists is the union over the selected lists of the chat
\* ids of the list and of all its transitive children, minus the same union
\* over the excluded lists; it is empty when no list is selected.
C4_ResolvedSelection ==
    LET got == getChatsFromLists(lists, selectedLists, excludedLists)
    IN /\ selectedLists = {} => got = {}
       /\ got = ResolvedAll(lists, selectedLists) \
                ResolvedAll(lists, excludedLists)

\* a list with a grandchild is selected, its child (the grandchild's parent)
\* is excluded, and ids of the selected list remain
C4_Witness ==
    \E a \in selectedLists, d \in excludedLists :
       /\ d \in Descendants(lists, a)
       /\ Descendants(lists, d) # {}
       /\ Resolved(lists, d) # {}
       /\ getChatsFromLists(lists, selectedLists, excludedLists) # {}

\* C5 as stated: applying the list selection keeps the chats selected
\* before, adds the ids of the selected lists and removes those of the
\* excluded lists.
C5_SelectionKeepsExplicit ==
    [][selectChatsFromLists =>
         selectedChats' = (selectedChats \cup ResolvedAll(lists, selectedLists))
                          \ ResolvedAll(lists, excludedLists)]_vars

\* C5 amended: applying the list selection replaces selectedChats by the ids
\* resolved from the selected lists minus those resolved from the excluded
\* lists; a chat selected before stays selected only if it is in that set.
C5_SelectionReplaced ==
    [][selectChatsFromLists =>
         selectedChats' = ResolvedAll(lists, selectedLists)
                          \ ResolvedAll(lists, excludedLists)]_vars

\* the list selection has just been applied with an exclusion in force
C5_Witness ==
    /\ Len(logs) > 0
    /\ logs[Len(logs)].message[1] = "Selected chats from lists"
    /\ excludedLists # {}
    /\ ResolvedAll(lists, excludedLists) # {}
    /\ selectedChats # {}
    /\ selectedChats = ResolvedAll(lists, selectedLists)
                       \ ResolvedAll(lists, excludedLists)

\* C6: no list id is both selected and excluded.
C6_SelectedExcludedDisjoint == selectedLists \cap excludedLists = {}

\* lists are selected and excluded at the same time, after a deletion
C6_Witness ==
    /\ selectedLists # {}
    /\ excludedLists # {}
    /\ \E i \in 1..Len(logs) : logs[i].message[1] = "Deleted list"

\* C29: every chat id in the broadcast selection is the id of a chat
\* currently in the registry, after any sequence of removeChat, toggleChat,
\* list edits, selectChatsFromLists and disconnect; hence a broadcast only
\* sends to tracked chats.
C29_SelectionTracked == selectedChats \subseteq IdsOf(chats)

----------------------------------------------------------------------------
(* Broadcast *)

Min(a, b) == IF a <= b THEN a ELSE b

SetMin(S) == CHOOSE x \in S : \A y \in S : x <= y
SetMax(S) == CHOOSE x \in S : \A y \in S : x >= y

\* Array.from(set): the elements in ascending order (the Set's insertion
\* order is not modelled)
RECURSIVE SetToSeq(_)
SetToSeq(S) ==
    IF S = {} THEN <<>>
    ELSE LET lo == SetMin(S)
             hi == SetMax(S)
             mid == (lo + hi) \div 2
         IN IF lo = hi THEN <<lo>>
            ELSE SetToSeq({x \in S : x <= mid}) \o
                 SetToSeq({x \in S : x > mid})

\* text of the compose field, as a sequence of characters
IsSpace(ch) == ch \in {" ", "\n", "\t"}

\* String.prototype.trim
RECURSIVE TrimLeft(_)
TrimLeft(t) ==
    IF t # <<>> /\ IsSpace(Head(t)) THEN TrimLeft(Tail(t)) ELSE t

RECURSIVE TrimRight(_)
TrimRight(t) ==
    IF t # <<>> /\ IsSpace(t[Len(t)])
    THEN TrimRight(SubSeq(t, 1, Len(t) - 1)) ELSE t

Trim(t) == TrimRight(TrimLeft(t))

\* p / q rounded to the nearest integer, halves up, in exact arithmetic
RoundDiv(p, q) == (2 * p + q) \div (2 * q)

RECURSIVE Pow2(_)
Pow2(n) == IF n = 0 THEN 1 ELSE 2 * Pow2(n - 1)

\* the largest e with 2^e <= m, for m >= 1
RECURSIVE Log2(_)
Log2(m) == IF m < 2 THEN 0 ELSE 1 + Log2(m \div 2)

\* the least t with 2^t * p >= q, for 0 < p <= q
RECURSIVE ScaleExp(_, _)
ScaleExp(p, q) == IF p >= q THEN 0 ELSE 1 + ScaleExp(2 * p, q)

\* (r * 2^n) mod q
RECURSIVE Pow2Mod(_, _, _)
Pow2Mod(r, n, q) == IF n = 0 THEN r % q ELSE Pow2Mod((2 * r) % q, n - 1, q)

\* a rounding that drops the fraction
RoundScaled_truncates(k, p, q) == (k * p) \div q

\* Math.round(k * (p / q)) on IEEE 754 doubles, for integers k >= 0 and
\* 0 <= p <= q, q > 0, small enough that k * p * q is far below 2^52.
\* p / q is rounded to a 53-bit significand first: with t == ScaleExp(p, q)
\* the quotient is M / 2^(52 + t), M the integer nearest to
\* p * 2^(52 + t) / q, so it misses p / q by rho / (q * 2^(52 + t)), where
\* rho is the remainder of p * 2^(52 + t) by q taken in (-q/2, q/2].  The
\* product by k is rounded again.  Unless k * p / q lies exactly halfway
\* between two integers these errors are too small to matter; when it is
\* m + 1/2, the double product is m + 1/2 or more (Math.round gives m + 1)
\* unless the quotient was rounded down (rho > 0) by more than half the
\* gap between m + 1/2 and the double before it, and Math.round gives m.
RoundScaled(k, p, q) ==
    IF k = 0 \/ p = 0 THEN 0
    ELSE LET num == k * p
             halfway == /\ (2 * num) % q = 0
                        /\ ((2 * num) \div q) % 2 = 1
         IN IF ~halfway THEN RoundDiv(num, q)
            ELSE LET m == ((2 * num) \div q - 1) \div 2
                     t == ScaleExp(p, q)
                     r == Pow2Mod(p, 52 + t, q)
                     rho == IF 2 * r < q THEN r ELSE r - q
                 IN IF rho <= 0 THEN m + 1
                    ELSE IF m = 0
                         THEN (IF 8 * k * rho <= q * Pow2(t) THEN 1 ELSE 0)
                         ELSE IF 2 * k * rho <= q * Pow2(t + Log2(m))
                              THEN m + 1 ELSE m

\* chats.find(c => c.id === chatId)?.title || chatId
TitleOrId(cs, chatId) ==
    IF \E i \in 1..Len(cs) : cs[i].id = chatId
    THEN cs[CHOOSE i \in 1..Len(cs) :
              /\ cs[i].id = chatId
              /\ \A j \in 1..(i - 1) : cs[j].id # chatId].title
    ELSE ToString(chatId)

\* a slice that is one element short
BatchAt_short(chatIds, i) ==
    {chatIds[k] : k \in (i + 1)..Min(i + BATCH_SIZE - 1, Len(chatIds))}

\* chatIds.slice(i, i + BATCH_SIZE), as the set of its elements
BatchAt(chatIds, i) ==
    {chatIds[k] : k \in (i + 1)..Min(i + BATCH_SIZE, Len(chatIds))}

\* one more sendMessage request for every chat of the batch
IssueSends(calls, batch) ==
    [c \in DOMAIN calls \cup batch |->
        (IF c \in DOMAIN calls THEN calls[c] ELSE 0) +
        (IF c \in batch THEN 1 ELSE 0)]

\* a batch whose first failure rejects Promise.all
StillInFlight_failFast(inflight, chatId, ok) ==
    IF ok THEN inflight \ {chatId} ELSE {}

\* the sends Promise.all still waits for once chatId's promise has resolved;
\* the try/catch of the send resolves it on success and on failure alike
StillInFlight(inflight, chatId, ok) == inflight \ {chatId}

\* the list stats update that ends a broadcast (setLists(prev => ...))
UpdateListStats(ls, chatIds, failed, total, now) ==
    [i \in 1..Len(ls) |->
        LET listSent == Cardinality(Range(chatIds) \cap Range(ls[i].chatIds))
            listFailed == RoundScaled(listSent, failed, total)
        IN IF listSent > 0
           THEN [ls[i] EXCEPT !.stats =
                    [sent |-> ls[i].stats.sent + (listSent - listFailed),
                     failed |-> ls[i].stats.failed + listFailed,
                     lastBroadcast |-> now]]
           ELSE ls[i]]

\* new Date().toISOString() at the end of a broadcast
Now == "now"

\* a guard that looks at the untrimmed text
CanBroadcast_untrimmed(msg, selected) == msg # <<>> /\ selected # {}

\* !(!message.trim() || selectedChats.size === 0)
CanBroadcast(msg, selected) == Trim(msg) # <<>> /\ selected # {}

\* a loop that also waits after the batch that ends exactly at the end
LastBatch_offByOne(i, n) == i + BATCH_SIZE > n

\* !(i + BATCH_SIZE < chatIds.length): no batch follows the one at offset i
LastBatch(i, n) == i + BATCH_SIZE >= n

\* broadcastMessage up to the first await: the early return, the progress
\* reset, and the requests of the first batch
broadcastMessage ==
    /\ bc.pc = "idle"
    /\ bc.runs < MaxBroadcasts
    /\ IF ~CanBroadcast(message, selectedChats)
       THEN UNCHANGED vars
       ELSE LET chatIds == SetToSeq(selectedChats)
                total == Cardinality(selectedChats)
            IN /\ error' = ""
               /\ sendingProgress' =
                     Some([sent |-> 0, total |-> total, failed |-> 0])
               /\ activeTab' = "logs"
               /\ logs' = addLog(logs, <<"Starting broadcast", total>>, "info")
               /\ bc' = [pc |-> "sending", chatIds |-> chatIds,
                         total |-> total, chats |-> chats, i |-> 0,
                         inflight |-> BatchAt(chatIds, 0),
                         sent |-> 0, failed |-> 0, batches |-> 1,
                         delays |-> 0, runs |-> bc.runs + 1]
               /\ sendCalls' = IssueSends(sendCalls, BatchAt(chatIds, 0))
               /\ UNCHANGED <<connVars, regVars, storeVars, listVars, discVars,
                              noAccess, chats, selectedChats, message,
                              templates>>

\* the response to one sendMessage of the running batch arrives; when it is
\* the batch's last, Promise.all resolves and the loop body continues in
\* the same turn: progress snapshot, then either the inter-batch delay or
\* the completion summary, the list stats and the progress timer
SendSettles(chatId) ==
    /\ bc.pc = "sending"
    /\ chatId \in bc.inflight
    /\ LET ok == chatId \notin noAccess
           sent == bc.sent + (IF ok THEN 1 ELSE 0)
           failed == bc.failed + (IF ok THEN 0 ELSE 1)
           title == TitleOrId(bc.chats, chatId)
           logs1 == IF ok THEN addLog(logs, <<"sent", title>>, "success")
                    ELSE addLog(logs, <<"failed", title, "Forbidden">>, "error")
           rest == StillInFlight(bc.inflight, chatId, ok)
           last == LastBatch(bc.i, Len(bc.chatIds))
           successRate == RoundScaled(100, sent, bc.total)
       IN IF rest # {}
          THEN /\ bc' = [bc EXCEPT !.sent = sent, !.failed = failed,
                                   !.inflight = rest]
               /\ logs' = logs1
               /\ UNCHANGED <<sendingProgress, lists, storeVars>>
          ELSE /\ sendingProgress' = Some([sent |-> sent, total |-> bc.total,
                                           failed |-> failed])
               /\ IF ~last
                  THEN /\ bc' = [bc EXCEPT !.sent = sent, !.failed = failed,
                                           !.inflight = rest, !.pc = "delay",
                                           !.delays = @ + 1]
                       /\ logs' = logs1
                       /\ UNCHANGED <<lists, storeVars>>
                  ELSE /\ bc' = [bc EXCEPT !.sent = sent, !.failed = failed,
                                           !.inflight = rest, !.pc = "done"]
                       /\ logs' = addLog(logs1,
                                     <<"Broadcast complete", sent, failed,
                                       successRate>>,
                                     IF successRate = 100 THEN "success"
                                     ELSE "warning")
                       /\ lists' = UpdateListStats(lists, bc.chatIds, failed,
                                                   bc.total, Now)
                       /\ UNCHANGED <<chats, templates, rememberToken>>
                       /\ SaveEffects(<<localStorage, sessionStorage>>)
    /\ UNCHANGED <<connVars, regVars, uiVars, discVars, noAccess, chats, selectedChats,
                   message, selectedLists, excludedLists, templates,
                   nextListId, sendCalls>>

\* selectAll with the default filter (type 'all', empty search), under which
\* getFilteredChats returns every tracked chat
selectAll ==
    /\ selectedChats' = IF IdsOf(chats) \subseteq selectedChats
                        THEN {} ELSE IdsOf(chats)
    /\ UNCHANGED <<connVars, regVars, storeVars, uiVars, listVars, bgVars, chats,
                   message, logs, sendingProgress, templates>>

\* the inter-batch timer fires: the loop advances and issues the next batch
BatchDelayElapses ==
    /\ bc.pc = "delay"
    /\ LET i == bc.i + BATCH_SIZE
       IN /\ bc' = [bc EXCEPT !.pc = "sending", !.i = i,
                              !.inflight = BatchAt(bc.chatIds, i),
                              !.batches = @ + 1]
          /\ sendCalls' = IssueSends(sendCalls, BatchAt(bc.chatIds, i))
    /\ UNCHANGED <<connVars, regVars, storeVars, uiVars, listVars, discVars, noAccess,
                   chats, selectedChats, message, logs, sendingProgress,
                   templates>>

\* setTimeout(() => setSendingProgress(null), 3000)
ProgressCleared ==
    /\ bc.pc = "done"
    /\ sendingProgress' = None
    /\ bc' = [bc EXCEPT !.pc = "idle"]
    /\ UNCHANGED <<connVars, regVars, storeVars, uiVars, listVars, discVars, noAccess,
                   chats, selectedChats, message, logs, templates, sendCalls>>

----------------------------------------------------------------------------
(* Specification of the broadcast: a connected session with N tracked      *)
(* chats, all of them selected, and a remote service that rejects the      *)
(* sends to the chats in noAccess.                                         *)

\* small target sets, and sizes around the batch boundaries
TargetSizes ==
    (1..SmallTargets) \cup
    {n \in 1..(MaxBatches * BATCH_SIZE + 1) :
        \E k \in 1..MaxBatches : n \in {k * BATCH_SIZE - 1, k * BATCH_SIZE,
                                        k * BATCH_SIZE + 1}}

\* the registry: N groups that carry the same title
BroadcastChats(n) ==
    [i \in 1..n |-> [id |-> i, title |-> "Group", type |-> "group",
                     botKicked |-> FALSE, memberCount |-> None]]

\* the chats the bot has lost access to: any subset of a small target set;
\* of a large one none, all, the whole first batch, or every chat after it
FailSets(n) ==
    IF n <= SmallTargets THEN SUBSET (1..n)
    ELSE {{}, 1..n, 1..Min(BATCH_SIZE, n), (BATCH_SIZE + 1)..n}

BroadcastLists ==
    << MkList(ListId(1), <<1, 2, BATCH_SIZE + 1>>, Null),
       MkList(ListId(2), <<2>>, ListId(1)),
       MkList(ListId(3), <<1000>>, Null) >>

MessageInputs == { <<"h", "i">>, <<" ", "\n">> }

InitBroadcast ==
    /\ step = "connected"
    /\ botToken = ValidToken
    /\ botInfo = "me"
    /\ rememberToken = FALSE
    /\ \E n \in TargetSizes :
          /\ chats = BroadcastChats(n)
          /\ selectedChats = 1..n
          /\ noAccess \in FailSets(n)
    /\ message \in MessageInputs
    /\ error = ""
    /\ activeTab = "compose"
    /\ logs = <<>>
    /\ sendingProgress = None
    /\ bc = IdleBroadcast
    /\ sendCalls = <<>>
    /\ discoveredChats = <<>>
    /\ isDiscovering = FALSE
    /\ lastUpdateId = 0
    /\ scan = IdleScan
    /\ lists = BroadcastLists
    /\ selectedLists = {}
    /\ excludedLists = {}
    /\ templates = <<>>
    /\ nextListId = 5
    /\ localStorage = SavedStorage(botToken, rememberToken, chats, lists,
                                   templates)[1]
    /\ sessionStorage = SavedStorage(botToken, rememberToken, chats, lists,
                                     templates)[2]
    /\ RegistryIdle

\* the sends of a batch settle in any order that takes, at each point, the
\* oldest or the newest request still in flight
NextBroadcast ==
    \/ broadcastMessage
    \/ selectAll
    \/ \E c \in {x \in bc.inflight : x = SetMin(bc.inflight)
                                       \/ x = SetMax(bc.inflight)} :
          SendSettles(c)
    \/ BatchDelayElapses
    \/ ProgressCleared

SpecBroadcast == InitBroadcast /\ [][NextBroadcast]_vars

----------------------------------------------------------------------------
(* Properties of the broadcast (SpecBroadcast) *)

CeilDiv(n, d) == (n + d - 1) \div d

CountType(log, t) == Cardinality({i \in 1..Len(log) : log[i].type = t})

\* the broadcast has run to completion
BroadcastDone == bc.runs > 0 /\ bc.pc \in {"done", "idle"}

\* C1: a broadcast to N >= 1 chats processes exactly ceil(N / 30) batches of
\* at most 30 chats each, and ends with sent + failed = N, whatever order
\* the sends of a batch settle in.
C1_BatchesAndCounts ==
    /\ Cardinality(bc.inflight) <= BATCH_SIZE
    /\ bc.runs > 0 =>
          /\ bc.total = Len(bc.chatIds)
          /\ bc.total = Cardinality(Range(bc.chatIds))
          /\ bc.total >= 1
          /\ bc.batches <= CeilDiv(bc.total, BATCH_SIZE)
          /\ bc.sent + bc.failed <= bc.total
    /\ BroadcastDone =>
          /\ bc.batches = CeilDiv(bc.total, BATCH_SIZE)
          /\ bc.sent + bc.failed = bc.total

\* a broadcast to one chat more than a full batch has completed in two
\* batches, with sends of both outcomes
C1_Witness ==
    /\ BroadcastDone
    /\ bc.total = BATCH_SIZE + 1
    /\ bc.batches = 2
    /\ bc.sent > 0
    /\ bc.failed > 0

\* C2: every chat of the target set receives exactly one sendMessage
\* attempt per broadcast; a failed send is counted in failed and logged as
\* an error, is not retried, and does not keep the other sends of its batch
\* or of later batches from being issued and counted.
C2_OneAttemptPerChat ==
    /\ \A c \in DOMAIN sendCalls :
          c \in Range(bc.chatIds) /\ sendCalls[c] <= bc.runs
    /\ BroadcastDone =>
          /\ \A c \in Range(bc.chatIds) :
                c \in DOMAIN sendCalls /\ sendCalls[c] = bc.runs
          /\ bc.failed = Cardinality(Range(bc.chatIds) \cap noAccess)
          /\ bc.sent = Cardinality(Range(bc.chatIds) \ noAccess)
          /\ CountType(logs, "error") = bc.runs * bc.failed

\* a broadcast has completed in which one send failed and the other sends
\* of its batch succeeded
C2_Witness ==
    /\ BroadcastDone
    /\ 1 \in noAccess
    /\ bc.failed = 1
    /\ bc.sent >= 2
    /\ CountType(logs, "error") = 1
    /\ \A c \in Range(bc.chatIds) : c \in DOMAIN sendCalls /\ sendCalls[c] = 1

\* the state a broadcast leaves its mark on
BroadcastState ==
    <<sendCalls, sendingProgress, logs, lists, bc, error, activeTab,
      localStorage, sessionStorage>>

\* C17: broadcastMessage invoked with a message that is empty after
\* trimming, or with an empty selection, issues no sendMessage request and
\* changes no state: no progress snapshot, no log entry, no list stats.
C17_NothingToBroadcast ==
    [][(bc.pc = "idle" /\ (Trim(message) = <<>> \/ selectedChats = {}))
          => UNCHANGED BroadcastState]_vars

\* every chat has been deselected under a message that has text: the
\* broadcast button finds an empty selection
C17_Witness ==
    /\ bc.pc = "idle"
    /\ bc.runs = 0
    /\ Trim(message) # <<>>
    /\ selectedChats = {}
    /\ chats # <<>>
    /\ sendCalls = <<>>
    /\ logs = <<>>
    /\ sendingProgress = None

\* the sendMessage requests issued for chat c so far
SendsTo(calls, c) == IF c \in DOMAIN calls THEN calls[c] ELSE 0

\* the sends of the batch at offset bc.i that have settled
SettledInBatch == bc.sent + bc.failed - bc.i

\* C20: no sendMessage of batch k+1 is issued until every send of batch k
\* has settled and the inter-batch delay has then elapsed; the delay is
\* taken after every batch except the last, so a broadcast of ceil(N / 30)
\* batches performs exactly ceil(N / 30) - 1 delays.
C20_BatchesInSequence ==
    /\ [](bc.runs > 0 =>
            /\ bc.pc = "sending" =>
                  /\ bc.delays = bc.batches - 1
                  /\ bc.inflight \subseteq BatchAt(bc.chatIds, bc.i)
                  /\ SettledInBatch + Cardinality(bc.inflight)
                        = Cardinality(BatchAt(bc.chatIds, bc.i))
                  /\ \A k \in 1..bc.total :
                        SendsTo(sendCalls, bc.chatIds[k])
                          = IF k <= bc.i + BATCH_SIZE THEN bc.runs
                            ELSE bc.runs - 1
            /\ bc.pc = "delay" =>
                  /\ bc.delays = bc.batches
                  /\ bc.inflight = {}
                  /\ bc.sent + bc.failed = bc.i + BATCH_SIZE
                  /\ bc.i + BATCH_SIZE < bc.total
            /\ BroadcastDone =>
                  /\ bc.batches = CeilDiv(bc.total, BATCH_SIZE)
                  /\ bc.delays = CeilDiv(bc.total, BATCH_SIZE) - 1)
    /\ [][sendCalls' # sendCalls =>
            /\ bc.inflight = {}
            /\ bc.pc \in {"idle", "delay"}
            /\ bc.pc = "delay" => bc.sent + bc.failed = bc.i + BATCH_SIZE
            /\ bc'.pc = "sending"
            /\ bc'.inflight = BatchAt(bc'.chatIds, bc'.i)
            /\ \A c \in DOMAIN sendCalls' :
                  SendsTo(sendCalls', c)
                    = SendsTo(sendCalls, c)
                        + (IF c \in bc'.inflight THEN 1 ELSE 0)]_vars

\* the second batch has been issued after the one delay of a broadcast to
\* one chat more than a batch holds, in whose first batch a send failed
C20_Witness ==
    /\ bc.pc = "sending"
    /\ bc.total = BATCH_SIZE + 1
    /\ bc.i = BATCH_SIZE
    /\ bc.batches = 2
    /\ bc.delays = 1
    /\ bc.failed >= 1
    /\ bc.sent + bc.failed = BATCH_SIZE
    /\ bc.inflight = {bc.chatIds[BATCH_SIZE + 1]}

----------------------------------------------------------------------------
(* Discovery *)

\* text of an update, as a sequence of characters
TRegister == <<"/", "R", "e", "g", "i", "s", "t", "e", "r">>
TRegisterArg == <<"/", "r", "e", "g", "i", "s", "t", "e", "r", " ", "x">>
THello == <<"h", "e", "l", "l", "o">>
TQuoted == <<" ", "/", "r", "e", "g", "i", "s", "t", "e", "r">>
Command == <<"/", "r", "e", "g", "i", "s", "t", "e", "r">>

\* String.prototype.toLowerCase, on the characters that occur
LowerChar(ch) ==
    CASE ch = "R" -> "r" [] ch = "E" -> "e" [] ch = "G" -> "g"
      [] ch = "I" -> "i" [] ch = "S" -> "s" [] ch = "T" -> "t"
      [] OTHER -> ch

ToLowerCase(t) == [i \in 1..Len(t) |-> LowerChar(t[i])]

\* String.prototype.startsWith
StartsWith(t, prefix) ==
    Len(t) >= Len(prefix) /\ SubSeq(t, 1, Len(prefix)) = prefix

\* the updates the remote service may deliver.  A message or channel post
\* carries a chat and an optional text (<<>> when absent); a my_chat_member
\* update a chat and the bot's new status (Null when absent)
UpdateKinds ==
    {[kind |-> "message", chat |-> c, text |-> t, status |-> Null] :
        c \in {1, 2}, t \in {TRegister, THello}}
    \cup
    {[kind |-> "channel_post", chat |-> 3, text |-> t, status |-> Null] :
        t \in {TRegisterArg, TQuoted, <<>>}}
    \cup
    {[kind |-> "my_chat_member", chat |-> 3, text |-> <<>>, status |-> st] :
        st \in {"member", "administrator", "left", "kicked", "restricted",
                Null}}
    \cup
    {[kind |-> "my_chat_member", chat |-> 2, text |-> <<>>,
      status |-> "member"]}

\* the getUpdates results of n updates whose update_id run from first on
UpdateBatches(first, n) ==
    {[i \in 1..n |-> [update_id |-> first + i - 1, kind |-> f[i].kind,
                      chat |-> f[i].chat, text |-> f[i].text,
                      status |-> f[i].status]] :
        f \in [1..n -> UpdateKinds]}

\* a classification that takes every membership change for an addition
Classify_anyStatus(u) ==
    IF u.kind \in {"message", "channel_post"}
    THEN [chat |-> u.chat,
          source |-> IF StartsWith(ToLowerCase(u.text), Command)
                     THEN "register_command" ELSE "message"]
    ELSE [chat |-> u.chat, source |-> "bot_added"]

\* the chat and source one update contributes (chat 0: none), lines 799-823
Classify(u) ==
    IF u.kind \in {"message", "channel_post"}
    THEN [chat |-> u.chat,
          source |-> IF StartsWith(ToLowerCase(u.text), Command)
                     THEN "register_command" ELSE "message"]
    ELSE IF u.kind = "my_chat_member"
              /\ u.status \in {"member", "administrator"}
         THEN [chat |-> u.chat, source |-> "bot_added"]
         ELSE [chat |-> 0, source |-> "message"]

\* acceptance without the chatMap.has check
Accepted_noDedup(u, existing, cands) ==
    LET cl == Classify(u)
    IN /\ cl.chat # 0
       /\ cl.chat \notin existing
       /\ ~(ChatType(cl.chat) = "private" /\ cl.source # "register_command")

\* acceptance without the private-chat check
Accepted_allowsPrivate(u, existing, cands) ==
    LET cl == Classify(u)
    IN /\ cl.chat # 0
       /\ cl.chat \notin existing
       /\ cl.chat \notin IdsOf(cands)

\* whether the update is entered into chatMap, given the registry ids and
\* the candidates collected so far (lines 825-829)
Accepted(u, existing, cands) ==
    LET cl == Classify(u)
    IN /\ cl.chat # 0
       /\ cl.chat \notin existing
       /\ cl.chat \notin IdsOf(cands)
       /\ ~(ChatType(cl.chat) = "private" /\ cl.source # "register_command")

\* the for loop over the updates: Array.from(chatMap.values())
RECURSIVE CollectCandidates(_, _, _)
CollectCandidates(updates, existing, cands) ==
    IF updates = <<>> THEN cands
    ELSE LET u == Head(updates)
             cl == Classify(u)
             c == RemoteChat(cl.chat)
         IN IF Accepted(u, existing, cands)
            THEN CollectCandidates(Tail(updates), existing,
                    Append(cands, [id |-> c.id, title |-> TitleOf(c),
                                   type |-> c.type, source |-> cl.source]))
            ELSE CollectCandidates(Tail(updates), existing, cands)

\* the update_id of the first update instead of the largest
MaxUpdateId_first(updates) == updates[1].update_id

\* Math.max(...updates.map(u => u.update_id))
RECURSIVE MaxUpdateId(_)
MaxUpdateId(updates) ==
    IF Len(updates) = 1 THEN updates[1].update_id
    ELSE Max(Head(updates).update_id, MaxUpdateId(Tail(updates)))

\* elements of cs whose source is (keep) or is not register_command, in order
RECURSIVE BySource(_, _)
BySource(cs, keep) ==
    IF cs = <<>> THEN <<>>
    ELSE IF (Head(cs).source = "register_command") = keep
         THEN <<Head(cs)>> \o BySource(Tail(cs), keep)
         ELSE BySource(Tail(cs), keep)

\* a candidate list published as collected
SortVerified_unsorted(cs) == cs

\* verified.sort(...): a stable sort that puts register_command first
SortVerified(cs) == BySource(cs, TRUE) \o BySource(cs, FALSE)

\* the tail of discoverChats once every candidate is probed: sort, publish,
\* log, and the finally block
FinishScan(verified, logs0) ==
    LET sorted == SortVerified(verified)
        registerCount == Len(BySource(verified, TRUE))
    IN /\ discoveredChats' = sorted
       /\ logs' = IF Len(sorted) > 0
                  THEN addLog(logs0, <<"Found new chats", Len(sorted),
                                       registerCount>>, "success")
                  ELSE addLog(logs0, <<"No new chats found">>, "info")
       /\ isDiscovering' = FALSE

\* discoverChats up to its first await: the getUpdates request
discoverChats ==
    /\ ~isDiscovering
    /\ scan.pc = "idle"
    /\ scan.runs < MaxScans
    /\ isDiscovering' = TRUE
    /\ logs' = addLog(logs, <<"Scanning for chats...">>, "info")
    /\ scan' = [pc |-> "getUpdates",
                offset |-> IF lastUpdateId # 0 THEN lastUpdateId + 1 ELSE 0,
                existing |-> IdsOf(chats), updates |-> <<>>,
                potential |-> <<>>, verified |-> <<>>, probes |-> <<>>,
                runs |-> scan.runs + 1]
    /\ UNCHANGED <<connVars, regVars, storeVars, uiVars, listVars, bcastVars, noAccess,
                   chats, selectedChats, message, sendingProgress, templates,
                   discoveredChats, lastUpdateId>>

\* getUpdates fails: the catch block and the finally block
GetUpdatesFails ==
    /\ scan.pc = "getUpdates"
    /\ logs' = addLog(logs, <<"Discovery failed">>, "error")
    /\ isDiscovering' = FALSE
    /\ scan' = [scan EXCEPT !.pc = "idle"]
    /\ UNCHANGED <<connVars, regVars, storeVars, uiVars, listVars, bcastVars, noAccess,
                   chats, selectedChats, message, sendingProgress, templates,
                   discoveredChats, lastUpdateId>>

\* getUpdates returns: no update ends the scan; otherwise the candidates
\* are collected and the first probe is sent, or the scan finishes when
\* there is nothing to probe
GetUpdatesReturns(updates) ==
    /\ scan.pc = "getUpdates"
    /\ IF updates = <<>>
       THEN /\ logs' = addLog(logs, <<"No new updates found">>, "warning")
            /\ isDiscovering' = FALSE
            /\ scan' = [scan EXCEPT !.pc = "idle"]
            /\ UNCHANGED <<discoveredChats, lastUpdateId>>
       ELSE LET potential == CollectCandidates(updates, scan.existing, <<>>)
            IN /\ lastUpdateId' = MaxUpdateId(updates)
               /\ IF potential = <<>>
                  THEN /\ scan' = [scan EXCEPT !.pc = "idle",
                                               !.updates = updates]
                       /\ FinishScan(<<>>, logs)
                  ELSE /\ scan' = [scan EXCEPT !.pc = "probing",
                                               !.updates = updates,
                                               !.potential = potential]
                       /\ UNCHANGED <<logs, isDiscovering, discoveredChats>>
    /\ UNCHANGED <<connVars, regVars, storeVars, uiVars, listVars, bcastVars, noAccess,
                   chats, selectedChats, message, sendingProgress, templates>>

\* a probe loop that keeps the candidate whatever the probe says
Verify_keepsFailed(verified, cand, ok) == Append(verified, cand)

\* try { await getChat; verified.push(chat) } catch { skip }
Verify(verified, cand, ok) ==
    IF ok THEN Append(verified, cand) ELSE verified

\* the getChat probe of the next candidate returns; after the last probe
\* the scan finishes in the same turn
ProbeReturns(ok) ==
    /\ scan.pc = "probing"
    /\ LET k == Len(scan.probes) + 1
           cand == scan.potential[k]
           verified == Verify(scan.verified, cand, ok)
           logs1 == IF ok THEN logs
                    ELSE addLog(logs, <<"Skipped", cand.title>>, "warning")
           probes == Append(scan.probes, [id |-> cand.id, ok |-> ok])
       IN IF k < Len(scan.potential)
          THEN /\ scan' = [scan EXCEPT !.verified = verified,
                                       !.probes = probes]
               /\ logs' = logs1
               /\ UNCHANGED <<discoveredChats, isDiscovering>>
          ELSE /\ scan' = [scan EXCEPT !.verified = verified,
                                       !.probes = probes, !.pc = "idle"]
               /\ FinishScan(verified, logs1)
    /\ UNCHANGED <<connVars, regVars, storeVars, uiVars, listVars, bcastVars, noAccess,
                   chats, selectedChats, message, sendingProgress, templates,
                   lastUpdateId>>

removeChat(chatId) ==
    /\ chats' = SelectSeq(chats, LAMBDA c : c.id # chatId)
    /\ selectedChats' = selectedChats \ {chatId}
    /\ logs' = addLog(logs, <<"Removed chat", chatId>>, "info")
    /\ UNCHANGED <<connVars, regVars, uiVars, listVars, bgVars, message,
                   sendingProgress, templates>>
    /\ SaveEffects(<<localStorage, sessionStorage>>)

----------------------------------------------------------------------------
(* Specification of discovery: a connected session, with or without a      *)
(* tracked chat, that scans for chats.                                     *)

InitDiscovery ==
    /\ step = "connected"
    /\ botToken = ValidToken
    /\ botInfo = "me"
    /\ rememberToken = FALSE
    /\ chats \in {<<>>, <<NewChat(RemoteChat(1))>>, <<NewChat(RemoteChat(3))>>}
    /\ selectedChats = {}
    /\ message = <<>>
    /\ error = ""
    /\ activeTab = "chats"
    /\ logs = <<>>
    /\ sendingProgress = None
    /\ bc = IdleBroadcast
    /\ sendCalls = <<>>
    /\ noAccess = {}
    /\ discoveredChats = <<>>
    /\ isDiscovering = FALSE
    /\ lastUpdateId = 0
    /\ scan = IdleScan
    /\ lists = <<>>
    /\ selectedLists = {}
    /\ excludedLists = {}
    /\ templates = <<>>
    /\ nextListId = 1
    /\ localStorage = SavedStorage(botToken, rememberToken, chats, lists,
                                   templates)[1]
    /\ sessionStorage = SavedStorage(botToken, rememberToken, chats, lists,
                                     templates)[2]
    /\ RegistryIdle

NextDiscovery ==
    \/ discoverChats
    \/ GetUpdatesFails
    \/ /\ scan.pc = "getUpdates"
       /\ LET first == IF scan.offset # 0 THEN scan.offset ELSE 1
          IN \E n \in 0..(MaxUpdates - (first - 1)) :
                \E us \in UpdateBatches(first, n) : GetUpdatesReturns(us)
    \/ \E ok \in BOOLEAN : ProbeReturns(ok)
    \/ \E c \in IdsOf(chats) : removeChat(c)

SpecDiscovery == InitDiscovery /\ [][NextDiscovery]_vars

----------------------------------------------------------------------------
(* Properties of discovery (SpecDiscovery) *)

\* the last scan returned updates and has published its candidate list
ScanPublished == scan.pc = "idle" /\ scan.updates # <<>>

IsRegisterText(t) == t \in {TRegister, TRegisterArg}

\* the update names a chat: a message, a channel post, or a membership
\* change to member or administrator
NamesChat(u) ==
    \/ u.kind \in {"message", "channel_post"}
    \/ u.kind = "my_chat_member" /\ u.status \in {"member", "administrator"}

SourceOf(u) ==
    IF u.kind = "my_chat_member" THEN "bot_added"
    ELSE IF IsRegisterText(u.text) THEN "register_command"
    ELSE "message"

\* the update can be accepted for its chat: the chat is not tracked, and a
\* private chat asks for registration
Eligible(u, existing) ==
    /\ NamesChat(u)
    /\ u.chat \notin existing
    /\ ChatType(u.chat) = "private" => SourceOf(u) = "register_command"

\* C7: the candidates of a scan contain no chat that was tracked when the
\* scan started, each chat id at most once, and each with the source of the
\* first update of that chat that was accepted.
C7_CandidatesUniqueFirstWins ==
    ScanPublished =>
       /\ \A i \in 1..Len(discoveredChats) :
             discoveredChats[i].id \notin scan.existing
       /\ \A i, j \in 1..Len(discoveredChats) :
             discoveredChats[i].id = discoveredChats[j].id => i = j
       /\ \A i \in 1..Len(discoveredChats) :
             \E k \in 1..Len(scan.updates) :
                /\ scan.updates[k].chat = discoveredChats[i].id
                /\ Eligible(scan.updates[k], scan.existing)
                /\ \A m \in 1..(k - 1) :
                      ~(scan.updates[m].chat = discoveredChats[i].id
                        /\ Eligible(scan.updates[m], scan.existing))
                /\ discoveredChats[i].source = SourceOf(scan.updates[k])

\* /register then hello from one group yield one candidate with source
\* register_command
C7_Witness ==
    /\ ScanPublished
    /\ Len(scan.updates) = 2
    /\ scan.updates[1].kind = "message" /\ scan.updates[1].chat = 1
    /\ scan.updates[1].text = TRegister
    /\ scan.updates[2].kind = "message" /\ scan.updates[2].chat = 1
    /\ scan.updates[2].text = THello
    /\ Len(discoveredChats) = 1
    /\ discoveredChats[1].id = 1
    /\ discoveredChats[1].source = "register_command"

\* C8: a candidate whose probe failed is not in discoveredChats after the
\* scan, every published candidate passed its probe in that scan, and every
\* candidate is probed whatever the earlier probes returned.
C8_OnlyProbedCandidates ==
    /\ Len(scan.probes) <= Len(scan.potential)
    /\ \A k \in 1..Len(scan.probes) : scan.probes[k].id = scan.potential[k].id
    /\ ScanPublished =>
          /\ Len(scan.probes) = Len(scan.potential)
          /\ \A k \in 1..Len(scan.probes) :
                scan.probes[k].ok <=>
                   scan.probes[k].id \in IdsOf(discoveredChats)
          /\ IdsOf(discoveredChats) \subseteq IdsOf(scan.probes)

\* the first probe of a scan failed, the second succeeded, and only the
\* second candidate was published
C8_Witness ==
    /\ ScanPublished
    /\ Len(scan.probes) = 2
    /\ ~scan.probes[1].ok
    /\ scan.probes[2].ok
    /\ IdsOf(discoveredChats) = {scan.probes[2].id}

\* C9: every private candidate has source register_command; a private chat
\* without a /register message in the scan is no candidate, while one with
\* a /register message after other messages is, if its probe passes.
C9_PrivateOnlyByRegister ==
    /\ \A i \in 1..Len(discoveredChats) :
          discoveredChats[i].type = "private"
             => discoveredChats[i].source = "register_command"
    /\ ScanPublished =>
          \A c \in {scan.updates[k].chat : k \in 1..Len(scan.updates)} :
             ChatType(c) = "private" =>
                (c \in IdsOf(discoveredChats)
                   <=> /\ c \notin scan.existing
                       /\ \E k \in 1..Len(scan.updates) :
                             /\ scan.updates[k].chat = c
                             /\ scan.updates[k].kind = "message"
                             /\ IsRegisterText(scan.updates[k].text)
                       /\ \E k \in 1..Len(scan.probes) :
                             scan.probes[k].id = c /\ scan.probes[k].ok)

\* a private chat said hello, then /register, and became a candidate
C9_Witness ==
    /\ ScanPublished
    /\ Len(scan.updates) = 2
    /\ scan.updates[1].kind = "message" /\ scan.updates[1].chat = 2
    /\ scan.updates[1].text = THello
    /\ scan.updates[2].kind = "message" /\ scan.updates[2].chat = 2
    /\ scan.updates[2].text = TRegister
    /\ Len(discoveredChats) = 1
    /\ discoveredChats[1].type = "private"
    /\ discoveredChats[1].source = "register_command"

\* C10: a candidate with source bot_added stems from a my_chat_member
\* update whose new status is member or administrator, and a chat that the
\* scan saw only in my_chat_member updates of another status (or none) is
\* no candidate.
C10_BotAddedOnlyWhenJoined ==
    /\ \A i \in 1..Len(scan.potential) :
          scan.potential[i].source = "bot_added" =>
             \E k \in 1..Len(scan.updates) :
                /\ scan.updates[k].chat = scan.potential[i].id
                /\ scan.updates[k].kind = "my_chat_member"
                /\ scan.updates[k].status \in {"member", "administrator"}
    /\ \A c \in IdsOf(scan.potential) :
          \E k \in 1..Len(scan.updates) :
             /\ scan.updates[k].chat = c
             /\ ~(scan.updates[k].kind = "my_chat_member"
                  /\ scan.updates[k].status
                        \notin {"member", "administrator"})
    /\ ScanPublished =>
          Range(discoveredChats) \subseteq Range(scan.potential)

\* the bot left a channel and was then made its administrator: one
\* candidate, with source bot_added
C10_Witness ==
    /\ ScanPublished
    /\ Len(scan.updates) = 2
    /\ scan.updates[1].kind = "my_chat_member"
    /\ scan.updates[1].status = "left"
    /\ scan.updates[2].kind = "my_chat_member"
    /\ scan.updates[2].status = "administrator"
    /\ Len(discoveredChats) = 1
    /\ discoveredChats[1].source = "bot_added"

\* the getUpdates request of a scan has been answered or has failed
GetUpdatesSettles == scan.pc = "getUpdates" /\ scan'.pc # "getUpdates"

\* a scan is started
ScanStarts == scan.pc = "idle" /\ scan'.pc = "getUpdates"

\* C23: after a scan that returned at least one event, lastUpdateId is the
\* maximum update_id of that scan and the next scan requests offset
\* lastUpdateId + 1, so the requested offset never decreases and no event at
\* or below a previously observed maximum is requested again; a scan that
\* returns no event, or whose getUpdates call fails, leaves lastUpdateId
\* unchanged.
C23_OffsetFollowsMaximum ==
    /\ [][GetUpdatesSettles =>
            IF scan'.updates # <<>>
            THEN /\ \A i \in 1..Len(scan'.updates) :
                       scan'.updates[i].update_id <= lastUpdateId'
                 /\ \E i \in 1..Len(scan'.updates) :
                       scan'.updates[i].update_id = lastUpdateId'
            ELSE lastUpdateId' = lastUpdateId]_vars
    /\ [][ScanStarts =>
            /\ lastUpdateId # 0 => scan'.offset = lastUpdateId + 1
            /\ scan'.offset >= scan.offset
            /\ \A i \in 1..Len(scan.updates) :
                  scan.updates[i].update_id < scan'.offset]_vars
    /\ [][lastUpdateId' >= lastUpdateId]_vars

\* the scan that followed a scan of two events asked for the events after
\* them, and got none
C23_Witness ==
    /\ scan.runs = 2
    /\ scan.pc = "idle"
    /\ scan.offset = 3
    /\ scan.updates = <<>>
    /\ lastUpdateId = 2

\* the place of chat id in the order in which the scan accepted its chats
AcceptedAt(id) ==
    CHOOSE k \in 1..Len(scan.potential) : scan.potential[k].id = id

\* C24: in the candidate list a scan publishes, every candidate with
\* source register_command precedes every candidate with another source,
\* and within each of the two groups the candidates keep the order in
\* which their chats were first accepted in the scan.
C24_RegisterFirst ==
    ScanPublished =>
        \A i, j \in 1..Len(discoveredChats) :
            i < j =>
               LET a == discoveredChats[i]
                   b == discoveredChats[j]
               IN /\ ~(a.source # "register_command"
                          /\ b.source = "register_command")
                  /\ (a.source = "register_command")
                        = (b.source = "register_command")
                       => AcceptedAt(a.id) < AcceptedAt(b.id)

\* a scan accepted a chat for a plain message and then a chat for its
\* /register command, and published the second before the first
C24_Witness ==
    /\ ScanPublished
    /\ Len(scan.potential) = 2
    /\ scan.potential[1].source = "message"
    /\ scan.potential[2].source = "register_command"
    /\ Len(discoveredChats) = 2
    /\ discoveredChats[1] = scan.potential[2]
    /\ discoveredChats[2] = scan.potential[1]

----------------------------------------------------------------------------
(* Refreshing the registry *)

\* one request sent to the remote service
Call(by, method, chatId) == [by |-> by, method |-> method, chat |-> chatId]

\* the member count the remote service reports
RemoteCount == 7

\* chatInfo.title || chatInfo.first_name || chat.title
RefreshedTitle(info, chat) ==
    IF info.title # Null THEN info.title
    ELSE IF info.first_name # Null THEN info.first_name
    ELSE chat.title

\* the getChat requests of chats.map(async chat => ...)
ProbeCalls(cs) ==
    [i \in 1..Len(cs) |-> Call("refreshChats", "getChat", cs[i].id)]

\* refreshChats up to its await: the call captures the chats of its render
\* and sends one getChat per chat
RefreshStarted(cs, runs) ==
    [pc |-> "probing", chats |-> cs,
     stage |-> [i \in 1..Len(cs) |-> "getChat"],
     results |-> cs, outcome |-> [i \in 1..Len(cs) |-> "none"],
     updated |-> 0, kicked |-> 0, runs |-> runs + 1]

\* the Refresh button (disabled while refreshing or without chats)
refreshChats ==
    /\ step = "connected"
    /\ ~isRefreshing
    /\ rf.pc = "idle"
    /\ rf.runs < MaxRefreshes
    /\ Len(chats) > 0
    /\ isRefreshing' = TRUE
    /\ logs' = addLog(logs, <<"Refreshing chat statuses...">>, "info")
    /\ rf' = RefreshStarted(chats, rf.runs)
    /\ apiCalls' = apiCalls \o ProbeCalls(chats)
    /\ UNCHANGED <<connVars, storeVars, uiVars, listVars, bgVars, chats,
                   selectedChats, message, sendingProgress, templates,
                   mounted, isLoading, newChatId, hasAutoRefreshed, addCalls,
                   connectCalls>>

\* a refresh that drops the chats it found kicked
RefreshSettled_dropsKicked(results, updated, kicked, logs0) ==
    /\ chats' = SelectSeq(results, LAMBDA c : ~c.botKicked)
    /\ logs' = addLog(logs0, <<"Refresh complete", updated, kicked>>,
                      IF kicked > 0 THEN "warning" ELSE "success")
    /\ isRefreshing' = FALSE
    /\ UNCHANGED <<lists, templates, rememberToken>>
    /\ SaveEffects(<<localStorage, sessionStorage>>)

\* Promise.all has resolved: setChats(updatedChats), the summary log entry,
\* setIsRefreshing(false), and the save effect of chats
RefreshSettled(results, updated, kicked, logs0) ==
    /\ chats' = results
    /\ logs' = addLog(logs0, <<"Refresh complete", updated, kicked>>,
                      IF kicked > 0 THEN "warning" ELSE "success")
    /\ isRefreshing' = FALSE
    /\ UNCHANGED <<lists, templates, rememberToken>>
    /\ SaveEffects(<<localStorage, sessionStorage>>)

\* the getChat of the i-th captured chat returns.  Success sends
\* getChatMemberCount; failure marks the chat as kicked, and when it was the
\* last chat still probed the refresh settles in the same turn
RefreshGetChatReturns(i, ok) ==
    /\ rf.pc = "probing"
    /\ i \in DOMAIN rf.stage
    /\ rf.stage[i] = "getChat"
    /\ IF ok
       THEN /\ rf' = [rf EXCEPT !.stage[i] = "count"]
            /\ apiCalls' = Append(apiCalls,
                                  Call("refreshChats", "getChatMemberCount",
                                       rf.chats[i].id))
            /\ UNCHANGED <<chats, logs, isRefreshing, storeVars>>
       ELSE LET chat == rf.chats[i]
                results == [rf.results EXCEPT ![i] =
                               [chat EXCEPT !.botKicked = TRUE]]
                stage == [rf.stage EXCEPT ![i] = "done"]
                kicked == rf.kicked + 1
                logs1 == addLog(logs, <<"Bot no longer in", chat.title>>,
                                "warning")
                last == \A j \in DOMAIN stage : stage[j] = "done"
            IN /\ rf' = [rf EXCEPT !.stage = stage, !.results = results,
                                   !.outcome[i] = "failed",
                                   !.kicked = kicked,
                                   !.pc = IF last THEN "idle" ELSE "probing"]
               /\ apiCalls' = apiCalls
               /\ IF last
                  THEN RefreshSettled(results, rf.updated, kicked, logs1)
                  ELSE /\ logs' = logs1
                       /\ UNCHANGED <<chats, isRefreshing, storeVars>>
    /\ UNCHANGED <<connVars, uiVars, listVars, bgVars, selectedChats,
                   message, sendingProgress, templates, mounted, isLoading,
                   newChatId, hasAutoRefreshed, addCalls, connectCalls>>

\* the getChatMemberCount of the i-th captured chat returns (count) or
\* fails (None): the chat's entry is rebuilt from the captured chat
RefreshCountReturns(i, count) ==
    /\ rf.pc = "probing"
    /\ i \in DOMAIN rf.stage
    /\ rf.stage[i] = "count"
    /\ LET chat == rf.chats[i]
           info == RemoteChat(chat.id)
           results == [rf.results EXCEPT ![i] =
                          [chat EXCEPT
                             !.title = RefreshedTitle(info, chat),
                             !.memberCount = IF count = None
                                             THEN chat.memberCount
                                             ELSE count,
                             !.botKicked = FALSE]]
           stage == [rf.stage EXCEPT ![i] = "done"]
           updated == rf.updated + 1
           last == \A j \in DOMAIN stage : stage[j] = "done"
       IN /\ rf' = [rf EXCEPT !.stage = stage, !.results = results,
                              !.outcome[i] = IF count = None THEN "noCount"
                                             ELSE "ok",
                              !.updated = updated,
                              !.pc = IF last THEN "idle" ELSE "probing"]
          /\ IF last
             THEN RefreshSettled(results, updated, rf.kicked, logs)
             ELSE UNCHANGED <<chats, logs, isRefreshing, storeVars>>
    /\ UNCHANGED <<connVars, uiVars, listVars, bgVars, selectedChats,
                   message, sendingProgress, templates, mounted, isLoading,
                   newChatId, hasAutoRefreshed, addCalls, connectCalls,
                   apiCalls>>

----------------------------------------------------------------------------
(* Connecting *)

Digits == {"0", "1", "2", "3", "4", "5", "6", "7", "8", "9"}

\* [A-Za-z0-9_-], on the characters that occur
TokenChars == Digits \cup {"a", "b", "x", "A", "Z", "_", "-"}

\* a format test that accepts every token that is not blank
TokenFormatOk_lenient(t) == t # <<>>

\* /^\d+:[A-Za-z0-9_-]+$/.test(t)
TokenFormatOk(t) ==
    \E k \in 1..Len(t) :
       /\ t[k] = ":"
       /\ k > 1
       /\ k < Len(t)
       /\ \A i \in 1..(k - 1) : t[i] \in Digits
       /\ \A i \in (k + 1)..Len(t) : t[i] \in TokenChars

\* number of requests of the method sent so far
CountCalls(method) ==
    Cardinality({i \in 1..Len(apiCalls) : apiCalls[i].method = method})

\* typing into the token field of the setup screen
setBotToken(t) ==
    /\ step = "setup"
    /\ mounted
    /\ botToken' = t
    /\ UNCHANGED <<step, botInfo, rememberToken, regVars, storeVars, uiVars,
                   listVars, bgVars, chats, selectedChats, message, logs,
                   sendingProgress, templates>>

\* the remember toggle of the setup screen: setRememberToken(!rememberToken),
\* after which all three save effects run
toggleRememberToken ==
    /\ step = "setup"
    /\ mounted
    /\ rememberToken' = ~rememberToken
    /\ UNCHANGED <<step, botToken, botInfo, regVars, uiVars, listVars, bgVars,
                   chats, selectedChats, message, logs, sendingProgress,
                   templates>>
    /\ SaveEffects(<<localStorage, sessionStorage>>)

\* connectBot up to its await (Enter key or Connect button)
connectBot ==
    /\ step = "setup"
    /\ mounted
    /\ IF Trim(botToken) = <<>>
       THEN /\ error' = "Please enter your bot token"
            /\ UNCHANGED <<isLoading, connectCalls, apiCalls>>
       ELSE IF ~TokenFormatOk(Trim(botToken))
       THEN /\ error' = "Invalid token format"
            /\ UNCHANGED <<isLoading, connectCalls, apiCalls>>
       ELSE /\ CountCalls("getMe") < MaxConnects
            /\ isLoading' = TRUE
            /\ error' = ""
            /\ connectCalls' = Append(connectCalls,
                                      [token |-> botToken,
                                       remember |-> rememberToken])
            /\ apiCalls' = Append(apiCalls, Call("connectBot", "getMe", 0))
    /\ UNCHANGED <<connVars, storeVars, activeTab, listVars, bgVars, chats,
                   selectedChats, message, logs, sendingProgress, templates,
                   mounted, isRefreshing, newChatId, hasAutoRefreshed,
                   addCalls, rf>>

\* the token write of connectBot (lines 321-330), on
\* st = <<localStorage, sessionStorage>>
SaveToken(st, token, remember) ==
    IF remember
    THEN <<[st[1] EXCEPT !["tg_bot_token"] = Some(token),
                         !["tg_remember_token"] = Some("true")],
           [st[2] EXCEPT !["tg_bot_token"] = None]>>
    ELSE <<[st[1] EXCEPT !["tg_bot_token"] = None,
                         !["tg_remember_token"] = None],
           [st[2] EXCEPT !["tg_bot_token"] = Some(token)]>>

\* getMe of the k-th running connectBot call returns.  Success stores the
\* token, enters the connected step, and the auto-refresh effect (lines
\* 961-973) validates the saved chats once (the model follows one
\* refreshChats call at a time); failure only reports
GetMeReturns(k, ok) ==
    /\ k \in 1..Len(connectCalls)
    /\ LET call == connectCalls[k]
           st == SaveToken(<<localStorage, sessionStorage>>, call.token,
                           call.remember)
           logs1 == addLog(logs, <<"Connected as", "me">>, "success")
           effect == AutoRefreshEffect("connected", chats, "me",
                                       hasAutoRefreshed)
       IN /\ connectCalls' = [i \in 1..(Len(connectCalls) - 1) |->
                                IF i < k THEN connectCalls[i]
                                ELSE connectCalls[i + 1]]
          /\ isLoading' = FALSE
          /\ IF ok
             THEN /\ botInfo' = "me"
                  /\ step' = "connected"
                  /\ localStorage' = st[1]
                  /\ sessionStorage' = st[2]
                  /\ error' = error
                  /\ hasAutoRefreshed' = effect.flag
                  /\ IF effect.start
                     THEN /\ rf.pc = "idle"
                          /\ isRefreshing' = TRUE
                          /\ logs' = addLog(addLog(logs1,
                                        <<"Validating saved chats...">>, "info"),
                                        <<"Refreshing chat statuses...">>, "info")
                          /\ rf' = RefreshStarted(chats, rf.runs)
                          /\ apiCalls' = apiCalls \o ProbeCalls(chats)
                     ELSE /\ logs' = logs1
                          /\ UNCHANGED <<isRefreshing, rf, apiCalls>>
             ELSE /\ error' = "Unauthorized"
                  /\ logs' = addLog(logs, <<"Connection failed">>, "error")
                  /\ UNCHANGED <<botInfo, step, storeVars, hasAutoRefreshed,
                                 isRefreshing, rf, apiCalls>>
    /\ UNCHANGED <<botToken, rememberToken, activeTab, listVars, bgVars,
                   chats, selectedChats, message, sendingProgress, templates,
                   mounted, newChatId, addCalls>>

\* the effects of the first render: the load effect reads the tier the
\* remember flag names; the save effects run on the initial state (which
\* removes the three collections from both tiers) and again on the loaded
\* state
Mount ==
    /\ ~mounted
    /\ LET remembered == localStorage["tg_remember_token"] = Some("true")
           tier == IF remembered THEN localStorage ELSE sessionStorage
           savedToken == tier["tg_bot_token"]
           cs == LoadChats(tier["tg_bot_chats"])
           ls == IF tier["tg_bot_lists"] = None THEN <<>>
                 ELSE tier["tg_bot_lists"][1]
           ts == IF tier["tg_bot_templates"] = None THEN <<>>
                 ELSE tier["tg_bot_templates"][1]
           s1 == SaveCollection(<<localStorage, sessionStorage>>,
                                "tg_bot_chats", cs, remembered)
           s2 == SaveCollection(s1, "tg_bot_lists", ls, remembered)
           s3 == SaveCollection(s2, "tg_bot_templates", ts, remembered)
       IN /\ mounted' = TRUE
          /\ rememberToken' = remembered
          /\ botToken' = IF savedToken # None /\ savedToken[1] # <<>>
                         THEN savedToken[1] ELSE botToken
          /\ chats' = cs
          /\ lists' = ls
          /\ templates' = ts
          /\ localStorage' = s3[1]
          /\ sessionStorage' = s3[2]
    /\ UNCHANGED <<step, botInfo, uiVars, bgVars, selectedChats, message, logs,
                   sendingProgress, selectedLists, excludedLists, nextListId,
                   isLoading, isRefreshing, newChatId, hasAutoRefreshed,
                   addCalls, rf, connectCalls, apiCalls>>

----------------------------------------------------------------------------
(* Specification of setup: the page is opened over the storage a previous  *)
(* session (or another script) left, the token is typed, the remember      *)
(* flag toggled, the bot connected and disconnected.                       *)

StoredChat(id, title) ==
    JObject([k \in {"id", "title", "type"} |->
               CASE k = "id" -> JNum(id)
                 [] k = "title" -> JStr(title)
                 [] OTHER -> JStr(ChatType(id))])

\* values of the chats key: none, unparsable text, a value that is no
\* array, arrays of valid entries, and arrays with one invalid entry
ChatTexts ==
    { None,
      Some(JBroken),
      Some(JOther),
      Some(JArray(<<>>)),
      Some(JArray(<<StoredChat(1, "old")>>)),
      Some(StringifyChats(<<[NewChat(RemoteChat(1)) EXCEPT
                               !.memberCount = Some(5)],
                            [NewChat(RemoteChat(3)) EXCEPT
                               !.botKicked = TRUE]>>)),
      Some(JArray(<<StoredChat(1, "old"),
                    JObject([k \in {"id", "title", "type"} |->
                               CASE k = "id" -> JStr("3")
                                 [] k = "title" -> JStr("t")
                                 [] OTHER -> JStr("channel")])>>)),
      Some(JArray(<<JObject([k \in {"id", "title", "type"} |->
                               CASE k = "id" -> JNum(3)
                                 [] k = "title" -> JStr("t")
                                 [] OTHER -> JStr("bot")]),
                    StoredChat(1, "old")>>)),
      Some(JArray(<<StoredChat(1, "old"),
                    JObject([k \in {"id", "type"} |->
                               CASE k = "id" -> JNum(3)
                                 [] OTHER -> JStr("channel")])>>)),
      Some(JArray(<<StoredChat(1, "old"), JScalar>>)) }

StoredLists == { None, Some(<<MkList(ListId(1), <<1>>, Null)>>) }

InitSetup ==
    /\ step = "setup"
    /\ botToken = <<>>
    /\ botInfo = Null
    /\ rememberToken = FALSE
    /\ chats = <<>>
    /\ selectedChats = {}
    /\ message = <<>>
    /\ error = ""
    /\ activeTab = "chats"
    /\ logs = <<>>
    /\ sendingProgress = None
    /\ bc = IdleBroadcast
    /\ sendCalls = <<>>
    /\ noAccess = {}
    /\ discoveredChats = <<>>
    /\ isDiscovering = FALSE
    /\ lastUpdateId = 0
    /\ scan = IdleScan
    /\ lists = <<>>
    /\ selectedLists = {}
    /\ excludedLists = {}
    /\ templates = <<>>
    /\ nextListId = 5
    /\ mounted = FALSE
    /\ isLoading = FALSE
    /\ isRefreshing = FALSE
    /\ newChatId = <<>>
    /\ hasAutoRefreshed = FALSE
    /\ addCalls = <<>>
    /\ rf = IdleRefresh
    /\ connectCalls = <<>>
    /\ apiCalls = <<>>
    /\ \E remembered \in BOOLEAN, token \in {None, Some(ValidToken)},
          cs \in ChatTexts, ls \in StoredLists :
          LET data == [EmptyStorage EXCEPT !["tg_bot_token"] = token,
                                           !["tg_bot_chats"] = cs,
                                           !["tg_bot_lists"] = ls]
          IN IF remembered
             THEN /\ localStorage = [data EXCEPT
                                       !["tg_remember_token"] = Some("true")]
                  /\ sessionStorage = EmptyStorage
             ELSE /\ localStorage = EmptyStorage
                  /\ sessionStorage = data

TokenInputs ==
    { <<>>, <<" ">>, ValidToken, <<"1", ":", "a", " ">>, <<"x">>,
      <<"1", ":", "!">>, <<":", "a">> }

NextSetup ==
    \/ Mount
    \/ \E t \in TokenInputs : setBotToken(t)
    \/ toggleRememberToken
    \/ connectBot
    \/ \E k \in 1..Len(connectCalls), ok \in BOOLEAN : GetMeReturns(k, ok)
    \/ \E i \in DOMAIN rf.stage, ok \in BOOLEAN : RefreshGetChatReturns(i, ok)
    \/ \E i \in DOMAIN rf.stage, count \in {None, Some(RemoteCount)} :
          RefreshCountReturns(i, count)
    \/ /\ step = "connected"
       /\ rf.pc = "idle"
       /\ connectCalls = <<>>
       /\ disconnect

SpecSetup == InitSetup /\ [][NextSetup]_vars

----------------------------------------------------------------------------
(* Properties of setup and persistence (SpecSetup) *)

\* the stored chats value the load effect reads
StoredChatsRead ==
    IF localStorage["tg_remember_token"] = Some("true")
    THEN localStorage["tg_bot_chats"]
    ELSE sessionStorage["tg_bot_chats"]

\* the chats of a sequence agree with the entries of a stored array on id,
\* title and type
SameChats(cs, items) ==
    /\ Len(cs) = Len(items)
    /\ \A i \in 1..Len(cs) :
          /\ cs[i].id = items[i].fields["id"].n
          /\ cs[i].title = items[i].fields["title"].s
          /\ cs[i].type = items[i].fields["type"].s

\* C11: what the save effect writes for a non-empty registry loads back as
\* the same chats (ids, titles, types); the load effect takes every entry
\* of a stored array whose entries all pass isValidChat, and takes nothing
\* when the stored value does not parse, is no array, or has an entry
\* failing isValidChat.
C11_ChatsRoundTrip ==
    /\ [](\A tier \in {localStorage, sessionStorage} :
             (mounted /\ tier["tg_bot_chats"] # None) =>
                /\ Len(chats) > 0
                /\ LoadChats(tier["tg_bot_chats"]) # <<>>
                /\ SameChats(LoadChats(tier["tg_bot_chats"]),
                             StringifyChats(chats).items)
                /\ IdsOf(LoadChats(tier["tg_bot_chats"])) = IdsOf(chats))
    /\ [][Mount =>
             LET stored == StoredChatsRead
             IN IF /\ stored # None
                   /\ stored[1].syntax
                   /\ stored[1].kind = "array"
                   /\ \A i \in 1..Len(stored[1].items) :
                         isValidChat(stored[1].items[i])
                THEN SameChats(chats', stored[1].items)
                ELSE chats' = <<>>]_vars

\* two stored chats have been loaded and written back
C11_Witness ==
    /\ mounted
    /\ step = "setup"
    /\ Len(chats) = 2
    /\ chats[1].id = 1 /\ chats[2].id = 3
    /\ chats[2].botKicked
    /\ sessionStorage["tg_bot_chats"] = Some(StringifyChats(chats))

\* tokens that are blank or do not have the form digits ':' [A-Za-z0-9_-]+
BadTokens == { <<>>, <<" ">>, <<"x">>, <<"1", ":", "!">>, <<":", "a">> }

\* C15: connectBot with a blank or malformed token sends no request and
\* leaves step, botInfo and both storage tiers unchanged; a getMe that the
\* remote service rejects leaves step, botInfo and both tiers unchanged.
C15_FailedConnectChangesNothing ==
    [][/\ (connectBot /\ botToken \in BadTokens) =>
             /\ UNCHANGED <<step, botInfo, localStorage, sessionStorage>>
             /\ UNCHANGED <<apiCalls, connectCalls>>
             /\ step' = "setup" /\ botInfo' = Null
       /\ \A k \in 1..Len(connectCalls) :
             (GetMeReturns(k, FALSE) /\ error' = "Unauthorized") =>
                UNCHANGED <<step, botInfo, localStorage, sessionStorage>>]_vars

\* a malformed token has been refused without a request, and a well-formed
\* one has been rejected by the remote service
C15_Witness ==
    /\ step = "setup"
    /\ botInfo = Null
    /\ error = "Unauthorized"
    /\ botToken \in BadTokens
    /\ CountCalls("getMe") = 1
    /\ connectCalls = <<>>

\* C19: no persisted key is present in both storage tiers.
C19_NoKeyInBothTiers ==
    \A k \in StorageKeys :
       ~(localStorage[k] # None /\ sessionStorage[k] # None)

\* the remember flag was switched on and the bot connected: token and
\* chats are in the durable tier only
C19_Witness ==
    /\ step = "connected"
    /\ rememberToken
    /\ localStorage["tg_bot_token"] # None
    /\ localStorage["tg_bot_chats"] # None
    /\ sessionStorage["tg_bot_token"] = None
    /\ sessionStorage["tg_bot_chats"] = None

\* a refreshChats call is started
RefreshStarts == rf'.runs = rf.runs + 1

ReloadTier ==
    IF localStorage["tg_remember_token"] = Some("true")
    THEN localStorage ELSE sessionStorage

\* C27: at every moment the tier a reload would read (chosen by the stored
\* tg_remember_token flag) is the tier that holds the last persisted chat
\* roster, lists and templates, so that a reload restores the non-empty
\* collections.
C27_ReloadTierHoldsCollections ==
    mounted =>
        /\ chats # <<>> =>
              ReloadTier["tg_bot_chats"] = Json("tg_bot_chats", chats)
        /\ lists # <<>> =>
              ReloadTier["tg_bot_lists"] = Json("tg_bot_lists", lists)
        /\ templates # <<>> =>
              ReloadTier["tg_bot_templates"]
                 = Json("tg_bot_templates", templates)

----------------------------------------------------------------------------
(* Adding chats *)

\* the chat id the remote service resolves a chat_id parameter to (0: no
\* such chat)
LookupChat(t) ==
    IF t = <<"1">> THEN 1
    ELSE IF t = <<"2">> THEN 2
    ELSE IF t = <<"3">> THEN 3
    ELSE IF t = <<"4">> THEN 4
    ELSE 0

\* typing into the add-chat field
setNewChatId(t) ==
    /\ step = "connected"
    /\ newChatId' = t
    /\ UNCHANGED <<connVars, storeVars, uiVars, listVars, bgVars, chats,
                   selectedChats, message, logs, sendingProgress, templates,
                   mounted, isLoading, isRefreshing, hasAutoRefreshed,
                   addCalls, rf, connectCalls, apiCalls>>

\* calls of addChat, addDiscoveredChat and addAllDiscoveredChats started
CountAdds ==
    Cardinality({i \in 1..Len(apiCalls) :
                    /\ apiCalls[i].by \in {"addChat", "addDiscoveredChat"}
                    /\ apiCalls[i].method = "getChat"})

\* a running call: the handler, its position, the chat asked for, the
\* registry ids of its render, and the candidates addAllDiscoveredChats
\* still has to add
AddCall(kind, chatId, existing, queue) ==
    [kind |-> kind, pc |-> "getChat", chat |-> chatId,
     existing |-> existing, queue |-> queue]

RemoveAt(s, k) ==
    [i \in 1..(Len(s) - 1) |-> IF i < k THEN s[i] ELSE s[i + 1]]

\* addChat up to its await (Enter key, or the Add button while not loading)
addChat ==
    /\ step = "connected"
    /\ IF Trim(newChatId) = <<>>
       THEN UNCHANGED vars
       ELSE /\ CountAdds < MaxAdds
            /\ isLoading' = TRUE
            /\ error' = ""
            /\ addCalls' = Append(addCalls,
                              AddCall("addChat", LookupChat(Trim(newChatId)),
                                      IdsOf(chats), <<>>))
            /\ apiCalls' = Append(apiCalls,
                              Call("addChat", "getChat",
                                   LookupChat(Trim(newChatId))))
            /\ UNCHANGED <<connVars, storeVars, activeTab, listVars, bgVars,
                           chats, selectedChats, message, logs,
                           sendingProgress, templates, mounted, isRefreshing,
                           newChatId, hasAutoRefreshed, rf, connectCalls>>

\* addDiscoveredChat up to its await (the Add button of a candidate,
\* disabled while loading)
addDiscoveredChat(chatId) ==
    /\ step = "connected"
    /\ ~isLoading
    /\ chatId \in IdsOf(discoveredChats)
    /\ CountAdds < MaxAdds
    /\ isLoading' = TRUE
    /\ addCalls' = Append(addCalls,
                      AddCall("addDiscoveredChat", chatId, IdsOf(chats), <<>>))
    /\ apiCalls' = Append(apiCalls, Call("addDiscoveredChat", "getChat", chatId))
    /\ UNCHANGED <<connVars, storeVars, uiVars, listVars, bgVars, chats,
                   selectedChats, message, logs, sendingProgress, templates,
                   mounted, isRefreshing, newChatId, hasAutoRefreshed, rf,
                   connectCalls>>

\* addAllDiscoveredChats up to its first await: the loop runs over the
\* candidates of its render, one addDiscoveredChat after the other
addAllDiscoveredChats ==
    /\ step = "connected"
    /\ ~isLoading
    /\ discoveredChats # <<>>
    /\ CountAdds < MaxAdds
    /\ isLoading' = TRUE
    /\ addCalls' = Append(addCalls,
                      AddCall("addDiscoveredChat", discoveredChats[1].id,
                              IdsOf(chats),
                              [i \in 1..(Len(discoveredChats) - 1) |->
                                  discoveredChats[i + 1].id]))
    /\ apiCalls' = Append(apiCalls,
                      Call("addDiscoveredChat", "getChat",
                           discoveredChats[1].id))
    /\ UNCHANGED <<connVars, storeVars, uiVars, listVars, bgVars, chats,
                   selectedChats, message, logs, sendingProgress, templates,
                   mounted, isRefreshing, newChatId, hasAutoRefreshed, rf,
                   connectCalls>>

\* the k-th running call, once its addDiscoveredChat has finished: the loop
\* of addAllDiscoveredChats starts the next one in the same turn
NextInQueue(k) ==
    LET call == addCalls[k]
    IN IF call.queue = <<>>
       THEN /\ addCalls' = RemoveAt(addCalls, k)
            /\ isLoading' = FALSE
            /\ apiCalls' = apiCalls
       ELSE /\ addCalls' = [addCalls EXCEPT ![k] =
                               AddCall(call.kind, Head(call.queue),
                                       call.existing, Tail(call.queue))]
            /\ isLoading' = TRUE
            /\ apiCalls' = Append(apiCalls,
                              Call("addDiscoveredChat", "getChat",
                                   Head(call.queue)))

\* a pending list that keeps the candidate
DropCandidate_keeps(cands, chatId) == cands

\* setDiscoveredChats(prev => prev.filter(c => c.id !== discovered.id))
DropCandidate(cands, chatId) == SelectSeq(cands, LAMBDA c : c.id # chatId)

\* the getChat of the k-th running call returns
AddGetChatReturns(k, ok) ==
    /\ k \in 1..Len(addCalls)
    /\ addCalls[k].pc = "getChat"
    /\ addCalls[k].chat = 0 => ~ok
    /\ LET call == addCalls[k]
       IN IF call.kind = "addChat"
          THEN IF ~ok
               THEN /\ error' = "Failed to add chat"
                    /\ logs' = addLog(logs, <<"Failed to add chat">>, "error")
                    /\ isLoading' = FALSE
                    /\ addCalls' = RemoveAt(addCalls, k)
                    /\ UNCHANGED <<apiCalls, discoveredChats>>
               ELSE IF call.chat \in call.existing
               THEN /\ error' = "Chat already added"
                    /\ isLoading' = FALSE
                    /\ addCalls' = RemoveAt(addCalls, k)
                    /\ UNCHANGED <<apiCalls, discoveredChats, logs>>
               ELSE /\ addCalls' = [addCalls EXCEPT ![k].pc = "count"]
                    /\ apiCalls' = Append(apiCalls,
                                      Call("addChat", "getChatMemberCount",
                                           call.chat))
                    /\ UNCHANGED <<error, isLoading, discoveredChats, logs>>
          ELSE IF ~ok
               THEN /\ logs' = addLog(logs, <<"Failed to add", call.chat>>,
                                      "error")
                    /\ discoveredChats' =
                          DropCandidate(discoveredChats, call.chat)
                    /\ NextInQueue(k)
                    /\ error' = error
               ELSE /\ addCalls' = [addCalls EXCEPT ![k].pc = "count"]
                    /\ apiCalls' = Append(apiCalls,
                                      Call("addDiscoveredChat",
                                           "getChatMemberCount", call.chat))
                    /\ UNCHANGED <<error, isLoading, discoveredChats, logs>>
    /\ UNCHANGED <<connVars, storeVars, activeTab, listVars, bcastVars,
                   isDiscovering, lastUpdateId, scan, noAccess, chats,
                   selectedChats, message, sendingProgress, templates,
                   mounted, isRefreshing, newChatId, hasAutoRefreshed, rf,
                   connectCalls>>

\* the getChatMemberCount of the k-th running call returns (count) or fails
\* (None): setChats(prev => [...prev, newChat])
AddCountReturns(k, count) ==
    /\ k \in 1..Len(addCalls)
    /\ addCalls[k].pc = "count"
    /\ LET call == addCalls[k]
           newChat == [NewChat(RemoteChat(call.chat)) EXCEPT
                          !.memberCount = count]
       IN /\ chats' = Append(chats, newChat)
          /\ logs' = addLog(logs, <<"Added", newChat.title>>, "success")
          /\ IF call.kind = "addChat"
             THEN /\ newChatId' = <<>>
                  /\ isLoading' = FALSE
                  /\ addCalls' = RemoveAt(addCalls, k)
                  /\ UNCHANGED <<discoveredChats, apiCalls>>
             ELSE /\ discoveredChats' =
                        DropCandidate(discoveredChats, call.chat)
                  /\ NextInQueue(k)
                  /\ newChatId' = newChatId
    /\ UNCHANGED <<connVars, uiVars, listVars, bcastVars, isDiscovering,
                   lastUpdateId, scan, noAccess, selectedChats, message,
                   sendingProgress, templates, mounted, isRefreshing,
                   hasAutoRefreshed, rf, connectCalls>>
    /\ SaveEffects(<<localStorage, sessionStorage>>)

----------------------------------------------------------------------------
(* Specification of the registry: a connected session with tracked chats   *)
(* and a candidate left by a discovery scan; chats are added, removed and  *)
(* refreshed.                                                              *)

\* the candidate a scan produced for a chat
Candidate(id) ==
    [id |-> id, title |-> TitleOf(RemoteChat(id)), type |-> ChatType(id),
     source |-> "register_command"]

ChatIdInputs == { <<"1">>, <<"3">> }

InitRegistry ==
    /\ step = "connected"
    /\ botToken = ValidToken
    /\ botInfo = "me"
    /\ rememberToken = FALSE
    /\ chats \in { <<[NewChat(RemoteChat(1)) EXCEPT !.title = "old",
                                                   !.memberCount = Some(5)]>>,
                   <<NewChat(RemoteChat(1)), NewChat(RemoteChat(4))>> }
    /\ selectedChats = {}
    /\ message = <<>>
    /\ error = ""
    /\ activeTab = "chats"
    /\ logs = <<>>
    /\ sendingProgress = None
    /\ bc = IdleBroadcast
    /\ sendCalls = <<>>
    /\ noAccess = {}
    /\ discoveredChats \in { <<>>, <<Candidate(3)>> }
    /\ isDiscovering = FALSE
    /\ lastUpdateId = 0
    /\ scan = IdleScan
    /\ lists = <<>>
    /\ selectedLists = {}
    /\ excludedLists = {}
    /\ templates = <<>>
    /\ nextListId = 5
    /\ localStorage = SavedStorage(botToken, rememberToken, chats, lists,
                                   templates)[1]
    /\ sessionStorage = SavedStorage(botToken, rememberToken, chats, lists,
                                     templates)[2]
    /\ RegistryIdle

NextRegistry ==
    \/ \E t \in ChatIdInputs : setNewChatId(t)
    \/ addChat
    \/ \E c \in IdsOf(discoveredChats) : addDiscoveredChat(c)
    \/ addAllDiscoveredChats
    \/ \E k \in 1..Len(addCalls), ok \in BOOLEAN : AddGetChatReturns(k, ok)
    \/ \E k \in 1..Len(addCalls), count \in {None, Some(RemoteCount)} :
          AddCountReturns(k, count)
    \/ \E c \in IdsOf(chats) : Len(logs) < MaxLog /\ removeChat(c)

SpecRegistry == InitRegistry /\ [][NextRegistry]_vars

----------------------------------------------------------------------------
(* Specification of the refresh: the same session, in which the registry   *)
(* is refreshed while a candidate is promoted and chats are removed.       *)

NextRefresh ==
    \/ refreshChats
    \/ \E i \in DOMAIN rf.stage, ok \in BOOLEAN : RefreshGetChatReturns(i, ok)
    \/ \E i \in DOMAIN rf.stage, count \in {None, Some(RemoteCount)} :
          RefreshCountReturns(i, count)
    \/ \E c \in IdsOf(discoveredChats) : addDiscoveredChat(c)
    \/ \E k \in 1..Len(addCalls), ok \in BOOLEAN : AddGetChatReturns(k, ok)
    \/ \E k \in 1..Len(addCalls), count \in {None, Some(RemoteCount)} :
          AddCountReturns(k, count)
    \/ \E c \in IdsOf(chats) : Len(logs) < MaxLog /\ removeChat(c)

SpecRefresh == InitRegistry /\ [][NextRefresh]_vars

----------------------------------------------------------------------------
(* Properties of the registry (SpecRegistry, SpecRefresh) *)

\* C12: no two entries of chats have the same id.
C12_UniqueChatIds ==
    \A i, j \in 1..Len(chats) : chats[i].id = chats[j].id => i = j

\* the step in which Promise.all of refreshChats resolves
RefreshSettles == rf.pc = "probing" /\ rf'.pc = "idle"

\* C13: the refresh neither removes a tracked chat nor brings a removed one
\* back: when it settles, the registry holds the ids that the adds and
\* removals have left in it.
C13_RefreshKeepsIds ==
    [][RefreshSettles => IdsOf(chats') = IdsOf(chats)]_vars

\* C14: a refresh during which nothing else touched the registry keeps the
\* ids, order and types; a chat whose getChat succeeded ends with botKicked
\* false (and with its previous memberCount when getChatMemberCount failed),
\* a chat whose getChat failed ends with botKicked true and is otherwise
\* unchanged; the active and kicked counts sum to the number of chats.
C14_RefreshAlone ==
    [][(RefreshSettles /\ chats = rf.chats /\ addCalls = <<>>) =>
          /\ Len(chats') = Len(chats)
          /\ \A i \in 1..Len(chats) :
                /\ chats'[i].id = chats[i].id
                /\ chats'[i].type = chats[i].type
                /\ rf'.outcome[i] \in {"ok", "noCount", "failed"}
                /\ rf'.outcome[i] = "failed" =>
                      chats'[i] = [chats[i] EXCEPT !.botKicked = TRUE]
                /\ rf'.outcome[i] # "failed" => ~chats'[i].botKicked
                /\ rf'.outcome[i] = "ok" =>
                      chats'[i].memberCount = Some(RemoteCount)
                /\ rf'.outcome[i] = "noCount" =>
                      chats'[i].memberCount = chats[i].memberCount
          /\ rf'.updated + rf'.kicked = Len(chats)
          /\ rf'.kicked =
                Cardinality({i \in 1..Len(chats) : rf'.outcome[i] = "failed"})
          /\ logs'[Len(logs')].message =
                <<"Refresh complete", rf'.updated, rf'.kicked>>]_vars

\* a refresh of two chats has settled undisturbed: one chat was found
\* kicked, the other kept its member count because the count request failed
C14_Witness ==
    /\ rf.pc = "idle"
    /\ rf.runs = 1
    /\ addCalls = <<>>
    /\ chats = rf.results
    /\ Len(chats) = 2
    /\ IdsOf(chats) = IdsOf(rf.chats)
    /\ rf.outcome = <<"failed", "noCount">>
    /\ chats[1].botKicked
    /\ ~chats[2].botKicked

\* C16: addChat for a chat that is already in the registry sends no
\* request and leaves the registry unchanged.
C16_DuplicateAddSendsNothing ==
    [][(addChat /\ LookupChat(Trim(newChatId)) \in IdsOf(chats)) =>
          /\ apiCalls' = apiCalls
          /\ chats' = chats]_vars

\* the requests that a step sends
RequestsSent == SubSeq(apiCalls', Len(apiCalls) + 1, Len(apiCalls'))

\* C25: addDiscoveredChat(c) always removes c from the pending candidate
\* list: if getChat succeeds the chat is appended to the registry exactly
\* once (a failing getChatMemberCount is tolerated), and if getChat fails
\* the registry is unchanged, a log entry is written and no retry is made.
C25_PromotionRemovesCandidate ==
    [][\A k \in 1..Len(addCalls) :
          addCalls[k].kind = "addDiscoveredChat" =>
             LET c == addCalls[k].chat
                 others == SelectSeq(discoveredChats, LAMBDA d : d.id # c)
             IN /\ AddGetChatReturns(k, FALSE) =>
                      /\ chats' = chats
                      /\ discoveredChats' = others
                      /\ Len(logs') = Len(logs) + 1
                      /\ logs'[Len(logs')].type = "error"
                      /\ \A i \in 1..Len(RequestsSent) :
                            RequestsSent[i].chat # c
                /\ AddGetChatReturns(k, TRUE) =>
                      /\ chats' = chats
                      /\ RequestsSent = <<Call("addDiscoveredChat",
                                               "getChatMemberCount", c)>>
                /\ \A count \in {None, Some(RemoteCount)} :
                      AddCountReturns(k, count) =>
                         /\ Len(chats') = Len(chats) + 1
                         /\ SubSeq(chats', 1, Len(chats)) = chats
                         /\ chats'[Len(chats')].id = c
                         /\ chats'[Len(chats')].memberCount = count
                         /\ discoveredChats' = others
                         /\ \A i \in 1..Len(RequestsSent) :
                               RequestsSent[i].chat # c]_vars

\* candidate 3 has been promoted although its member count could not be
\* fetched: it is tracked, without a member count, and no longer pending
C25_Witness ==
    /\ addCalls = <<>>
    /\ discoveredChats = <<>>
    /\ \E i \in 1..Len(apiCalls) :
          apiCalls[i] = Call("addDiscoveredChat", "getChatMemberCount", 3)
    /\ Cardinality({i \in 1..Len(chats) : chats[i].id = 3}) = 1
    /\ chats[Len(chats)].id = 3
    /\ chats[Len(chats)].memberCount = None

----------------------------------------------------------------------------
(* Activity log *)

\* the ordinal of the next entry: entries are told apart by the order in
\* which they were appended since the log was last cleared
NextEntry(log) == IF log = <<>> THEN 1 ELSE log[Len(log)].message + 1

\* a handler calls addLog
LogAppended ==
    /\ NextEntry(logs) <= MaxAppends
    /\ logs' = addLog(logs, NextEntry(logs), "info")
    /\ UNCHANGED <<connVars, regVars, storeVars, uiVars, listVars, bgVars,
                   chats, selectedChats, message, sendingProgress, templates>>

\* the Clear button of the log tab: setLogs([])
clearLogs ==
    /\ logs' = <<>>
    /\ UNCHANGED <<connVars, regVars, storeVars, uiVars, listVars, bgVars,
                   chats, selectedChats, message, sendingProgress, templates>>

----------------------------------------------------------------------------
(* Specification of the activity log: a connected session whose handlers   *)
(* append entries to the log, which the user clears now and then.          *)

NextLog ==
    \/ LogAppended
    \/ clearLogs

SpecLog == InitRegistry /\ [][NextLog]_vars

----------------------------------------------------------------------------
(* Properties of the activity log (SpecLog) *)

\* C18: the activity log retains only the last 200 entries: after any
\* sequence of addLog calls it holds at most 200 entries, and they are the
\* most recently appended ones in append order.
C18_LogHoldsLast200 ==
    /\ Len(logs) <= LOG_KEEP
    /\ \A k \in 1..(Len(logs) - 1) : logs[k + 1].message = logs[k].message + 1

----------------------------------------------------------------------------
(* Specification of the broadcast summary: broadcasts to target sets in    *)
(* which a few sends, or most of them, fail, with lists that hold some of  *)
(* the targets.                                                            *)

\* sizes of the target set: two chats, less than a batch, several batches
RateTargets == {2, 22, 200}

\* the chats the bot has lost access to: none, the first, or the first 15
RateFailSets(n) == {{}, {1}, 1..Min(15, n)}

\* a list of the first 11 chats, a sublist with one target and one chat
\* that is not tracked, and a list without any target
RateLists ==
    << MkList(ListId(1), SetToSeq(1..11), Null),
       MkList(ListId(2), <<2, 1000>>, ListId(1)),
       MkList(ListId(3), <<1000>>, Null) >>

InitRates ==
    /\ step = "connected"
    /\ botToken = ValidToken
    /\ botInfo = "me"
    /\ rememberToken = FALSE
    /\ \E n \in RateTargets :
          /\ chats = BroadcastChats(n)
          /\ selectedChats = 1..n
          /\ noAccess \in RateFailSets(n)
    /\ message = <<"h", "i">>
    /\ error = ""
    /\ activeTab = "compose"
    /\ logs = <<>>
    /\ sendingProgress = None
    /\ bc = IdleBroadcast
    /\ sendCalls = <<>>
    /\ discoveredChats = <<>>
    /\ isDiscovering = FALSE
    /\ lastUpdateId = 0
    /\ scan = IdleScan
    /\ lists = RateLists
    /\ selectedLists = {}
    /\ excludedLists = {}
    /\ templates = <<>>
    /\ nextListId = 5
    /\ localStorage = SavedStorage(botToken, rememberToken, chats, lists,
                                   templates)[1]
    /\ sessionStorage = SavedStorage(botToken, rememberToken, chats, lists,
                                     templates)[2]
    /\ RegistryIdle

\* the responses of a batch arrive in the order of its requests: the counts
\* the summary is computed from do not depend on the order (SpecBroadcast
\* covers the other orders)
NextRates ==
    \/ broadcastMessage
    \/ bc.inflight # {} /\ SendSettles(SetMin(bc.inflight))
    \/ BatchDelayElapses
    \/ ProgressCleared

SpecRates == InitRates /\ [][NextRates]_vars

----------------------------------------------------------------------------
(* Properties of the broadcast summary (SpecRates) *)

\* C21: for every target-set size N >= 1 the completion summary of a
\* broadcast is logged as success when all N sends succeeded and as warning
\* whenever at least one send failed.
C21_SummaryClass ==
    bc.pc = "done" =>
        logs[Len(logs)].type = IF bc.failed = 0 THEN "success" ELSE "warning"

\* the step on which the last send of a broadcast settles
BroadcastCompletes == bc.pc = "sending" /\ bc'.pc = "done"

\* the chats of list l that the broadcast attempted
Attempted(l) == Cardinality(Range(bc.chatIds) \cap Range(l.chatIds))

\* what the end of a broadcast does to the lists, given the increase each
\* touched list's failed count takes
ListStatsUpdated(Increase(_)) ==
    /\ Len(lists') = Len(lists)
    /\ \A i \in 1..Len(lists) :
          LET k == Attempted(lists[i])
              f == Increase(k)
          IN IF k >= 1
             THEN /\ f >= 0
                  /\ k - f >= 0
                  /\ lists'[i] =
                        [lists[i] EXCEPT !.stats =
                            [sent |-> lists[i].stats.sent + (k - f),
                             failed |-> lists[i].stats.failed + f,
                             lastBroadcast |-> Now]]
             ELSE lists'[i] = lists[i]

\* k * failed / N rounded to the nearest integer, halves up
RoundedShare(k) == RoundDiv(k * bc'.failed, bc.total)

\* C22 as stated: when a broadcast with N targets and failed failures
\* completes, every list with k >= 1 of its chatIds in the target set has
\* stats.failed increased by round(k * failed / N), stats.sent increased by
\* k minus that amount, and lastBroadcast set to the completion timestamp;
\* every list with no chatId in the target set is left unchanged.
C22_ListStatsRounded ==
    [][BroadcastCompletes => ListStatsUpdated(RoundedShare)]_vars

\* the increase the failed count of a list with k attempted chats took
FailedIncrease(i) == lists'[i].stats.failed - lists[i].stats.failed

\* C22 as amended: the increase f of stats.failed is an integer nearest
\* to k * failed / N (when k * failed / N lies halfway between two integers
\* it is either of them), stats.sent increases by k - f, both increases are
\* non-negative, lastBroadcast is the completion timestamp, and a list
\* with no chatId in the target set is left unchanged.
C22_ListStatsNearest ==
    [][BroadcastCompletes =>
          /\ Len(lists') = Len(lists)
          /\ \A i \in 1..Len(lists) :
                LET k == Attempted(lists[i])
                    f == FailedIncrease(i)
                    d == k * bc'.failed - f * bc.total
                IN IF k >= 1
                   THEN /\ 2 * d <= bc.total
                        /\ -2 * d <= bc.total
                        /\ f >= 0
                        /\ k - f >= 0
                        /\ lists'[i] =
                              [lists[i] EXCEPT !.stats =
                                  [sent |-> lists[i].stats.sent + (k - f),
                                   failed |-> lists[i].stats.failed + f,
                                   lastBroadcast |-> Now]]
                   ELSE lists'[i] = lists[i]]_vars

\* a broadcast to 22 chats of which 15 failed has completed: the list that
\* holds 11 of the targets took 7 of its 7.5 estimated failures, the list
\* with one target 1, and the list without a target none
C22_Witness ==
    /\ bc.pc = "done"
    /\ bc.runs = 1
    /\ bc.total = 22
    /\ bc.failed = 15
    /\ lists[1].stats = [sent |-> 4, failed |-> 7, lastBroadcast |-> Now]
    /\ lists[2].stats = [sent |-> 0, failed |-> 1, lastBroadcast |-> Now]
    /\ lists[3].stats = [sent |-> 0, failed |-> 0, lastBroadcast |-> Null]

----------------------------------------------------------------------------
(* Specification of the teardown: the session of the refresh               *)
(* specification, which the user disconnects at any moment, also while a   *)
(* refresh or a promotion is in flight.                                    *)

NextTeardown ==
    \/ NextRefresh
    \/ step = "connected" /\ disconnect

SpecTeardown == InitRegistry /\ [][NextTeardown]_vars

----------------------------------------------------------------------------
(* Properties of the teardown (SpecTeardown) *)

\* C28: after disconnect the registry is empty and neither storage tier
\* holds the chat roster key, and no operation that was in flight when
\* disconnect ran repopulates the registry or the storage afterwards.
C28_DisconnectIsFinal ==
    step = "setup" =>
        /\ chats = <<>>
        /\ localStorage["tg_bot_chats"] = None
        /\ sessionStorage["tg_bot_chats"] = None

----------------------------------------------------------------------------
(* Specification of the stored lists: a connected session whose list       *)
(* collection is whatever the load effect restored from storage.  The      *)
(* validation looks at each item's own fields only, so a collection in     *)
(* which parentId references loop, or two items share an id, is loaded.    *)

\* isValidList, over the fields the model keeps: id, chatIds and stats are
\* present with the right type; parentId is not looked at
isValidList(l) == {"id", "chatIds", "stats"} \subseteq DOMAIN l

\* the load effect for tg_bot_lists: the parsed array replaces the lists
\* when every item is valid, and is dropped as a whole otherwise
LoadLists(stored) ==
    IF stored = None THEN <<>>
    ELSE IF \A i \in 1..Len(stored[1]) : isValidList(stored[1][i])
         THEN stored[1]
         ELSE <<>>

\* Stored values of tg_bot_lists
StoredListPayloads ==
    { \* a root with a child and a grandchild
      << MkList(ListId(1), <<1>>, Null), MkList(ListId(2), <<2>>, ListId(1)),
         MkList(ListId(3), <<3>>, ListId(2)) >>,
      \* a root, and a list whose parentId is its own id
      << MkList(ListId(1), <<1>>, Null), MkList(ListId(2), <<2>>, ListId(2)) >>,
      \* a root with a child, and two lists that are each other's parent
      << MkList(ListId(1), <<1>>, Null), MkList(ListId(2), <<2>>, ListId(1)),
         MkList(ListId(3), <<3>>, ListId(4)),
         MkList(ListId(4), <<4>>, ListId(3)) >>,
      \* a root, and a list with the root's id whose parentId is its own id
      << MkList(ListId(1), <<1>>, Null), MkList(ListId(1), <<2>>, ListId(1)) >>,
      \* an item without chatIds
      << MkList(ListId(1), <<1>>, Null),
         [id |-> ListId(2), parentId |-> Null,
          stats |-> [sent |-> 0, failed |-> 0, lastBroadcast |-> Null]] >> }

\* getAllChatIds(listId) is still descending after depth nested calls: the
\* list is found and one of its children descends further
RECURSIVE Descends(_, _, _)
Descends(ls, listId, depth) ==
    /\ listId \in ListIdsOf(ls)
    /\ \/ depth = 0
       \/ \E c \in ChildIds(ls, listId) : Descends(ls, c, depth - 1)

\* getAllChatIds(listId) returns.  A chain of more nested calls than there
\* are lists meets some id twice, and the call on that id then reaches
\* itself again without end.
Returns(ls, listId) == ~Descends(ls, listId, Len(ls))

\* getChatsFromLists returns: each call of getAllChatIds it makes returns
ResolutionTerminates(ls, sel, exc) == \A l \in sel \cup exc : Returns(ls, l)

\* The page is on screen: the lists panel computes getChatsFromLists for its
\* summary line whenever a list is selected or excluded, and a render that
\* does not finish leaves no page to press buttons on.
PanelRenders ==
    /\ step = "connected"
    /\ ResolutionTerminates(lists, selectedLists, excludedLists)

InitStoredLists ==
    /\ step = "connected"
    /\ botToken = ValidToken
    /\ botInfo = "me"
    /\ rememberToken = FALSE
    /\ chats = SavedChats
    /\ selectedChats = {}
    /\ message = <<>>
    /\ error = ""
    /\ activeTab = "chats"
    /\ logs = <<>>
    /\ sendingProgress = None
    /\ bc = IdleBroadcast
    /\ sendCalls = <<>>
    /\ noAccess = {}
    /\ discoveredChats = <<>>
    /\ isDiscovering = FALSE
    /\ lastUpdateId = 0
    /\ scan = IdleScan
    /\ lists \in {LoadLists(Some(p)) : p \in StoredListPayloads}
    /\ selectedLists = {}
    /\ excludedLists = {}
    /\ templates = <<>>
    /\ nextListId = 5
    /\ localStorage = SavedStorage(botToken, rememberToken, chats, lists,
                                   templates)[1]
    /\ sessionStorage = SavedStorage(botToken, rememberToken, chats, lists,
                                     templates)[2]
    /\ RegistryIdle

NextStoredLists ==
    \/ PanelRenders /\ \E l \in RenderedIds(lists) : toggleListSelection(l)
    \/ PanelRenders /\ \E l \in RenderedIds(lists) : toggleListExclusion(l)
    \/ PanelRenders /\ selectedLists \cup excludedLists # {}
                    /\ selectChatsFromLists
    \/ PanelRenders /\ \E c \in IdsOf(chats) : toggleChat(c)

SpecStoredLists == InitStoredLists /\ [][NextStoredLists]_vars

----------------------------------------------------------------------------
(* Properties of the stored lists (SpecStoredLists) *)

\* C30: resolving the chats of the selected and excluded lists terminates
\* for every list collection the load-time validation accepts, also when a
\* list's parentId is its own id or the parentId references form a cycle.
C30_ResolutionReturns ==
    ResolutionTerminates(lists, selectedLists, excludedLists)

====
